---- MODULE Spec2Model ----
(***************************************************************************)
(* EchoLearn pronunciation-scoring worker: the CTC span decoder, the       *)
(* Levenshtein / DTW alignment routines and the similarity metrics built   *)
(* on them, the rating predictors, the extractor cache and the POST /score *)
(* handler, modelled from src/worker.                                      *)
(*                                                                         *)
(* The metric routines are functions of their arguments.  Each of their    *)
(* components holds the arguments of one call and what the call produced;  *)
(* its Init draws the arguments from bounded sets and its action runs the  *)
(* whole routine.  The extractor cache and the scorer hold state across    *)
(* calls.  Frame indices are 0-based as in the Python source;              *)
(* TLA+ sequences are 1-based, so frame t is ids[t + 1].                   *)
(***************************************************************************)
EXTENDS Integers, Sequences, FiniteSets, TLC

VARIABLES
    \* PhoneCTC.posteriors_and_spans
    blank, ids, collapsed, spans, broke, ctcPc,
    \* _calc_per / calculate_per_similarity / AudioScorer._calculate_per_similarity
    ref, hyp, perOp, perOut, perRan, perPc,
    \* SpeechMetrics.dtw_alignment
    seq1, seq2, dtw, path, fell, dtwPc,
    \* _align_ppgs
    ppg_test, ppg_ref, acc_cost, index_path, alnFell, alnPc,
    \* _ppg_jsd_similarity / calculate_ppg_similarity /
    \* AudioScorer._calculate_ppg_similarity
    logp_a, logp_b, ppgBand, downsample, ppgOp, ppgNa, ppgNb, ppgBandEff,
    ppgD, ppgOut, ppgRan, ppgPc,
    \* _gops_from_spans / _dtw_phone / calculate_gop_similarity
    gop_logp_a, gop_logp_b, gopDownsample, gopBand, gops_a, gops_b, gopOp,
    gopOut, gopRan, gopPc,
    \* SpeechMetrics.align_features / calculate_vde / calculate_gpe / calculate_ffe
    feat1, feat2, proOp, proPath, proOut, proRan, proPc,
    \* RatingPredictor: fields, and the arguments and result of one predict
    model, scaler, features, prediction, ratOut, ratPc,
    \* scoring_service: module globals, and the arguments and result of one
    \* predict_score
    _model, _METRIC_INFO, _SCORE_COLUMNS, model_path_exists, metrics,
    \* the last function of the service called, the models_dir of the last
    \* load_model, how it ended, and what get_feature_importance gave
    svcOp, models_dir, loadOut, featOut,
    predicted_score, svcOut, svcPc,
    \* _get_ppg_extractor: the module-level cache, the extractors built so
    \* far, and each caller's argument, local and position
    _PPG_EXTRACTORS, instances, device, extractor, extPc,
    \* AudioScorer and POST /score: the fields of a scorer kept by its
    \* owner, the models loaded so far, the score calls made on the scorer,
    \* the requests served and the outcome of the last one
    scorer, loads, calls, requests, response,
    \* POST /score: the ai_scores table, the last request and its reply, the
    \* temporary files it created, the scorings it ran, and per key the
    \* rating that the request which stored the score returned
    ai_scores, request, reply, temp_created, scorer_runs, returned,
    \* get_wer_score: the arguments, what the files hold, the Whisper loads
    \* and transcriptions made, and the result
    test_is_file, gt_is_file, gt_transcript, ground_truth_transcript_path,
    test_result, gt_text_raw, whisper_loads, transcribed, werOut, werPc

ctcVars == <<blank, ids, collapsed, spans, broke, ctcPc>>

perVars == <<ref, hyp, perOp, perOut, perRan, perPc>>

dtwVars == <<seq1, seq2, dtw, path, fell, dtwPc>>

alnVars == <<ppg_test, ppg_ref, acc_cost, index_path, alnFell, alnPc>>

ppgVars == <<logp_a, logp_b, ppgBand, downsample, ppgOp, ppgNa, ppgNb,
             ppgBandEff, ppgD, ppgOut, ppgRan, ppgPc>>

gopVars == <<gop_logp_a, gop_logp_b, gopDownsample, gopBand, gops_a, gops_b,
             gopOp, gopOut, gopRan, gopPc>>

proVars == <<feat1, feat2, proOp, proPath, proOut, proRan, proPc>>

ratVars == <<model, scaler, features, prediction, ratOut, ratPc>>

svcVars == <<_model, _METRIC_INFO, _SCORE_COLUMNS, model_path_exists, metrics,
             svcOp, models_dir, loadOut, featOut,
             predicted_score, svcOut, svcPc>>

extVars == <<_PPG_EXTRACTORS, instances, device, extractor, extPc>>

srvVars == <<scorer, loads, calls, requests, response,
             ai_scores, request, reply, temp_created, scorer_runs, returned>>

werVars == <<test_is_file, gt_is_file, gt_transcript, ground_truth_transcript_path,
             test_result, gt_text_raw, whisper_loads, transcribed, werOut, werPc>>

vars == <<ctcVars, perVars, dtwVars, alnVars, ppgVars, gopVars, proVars,
          ratVars, svcVars, extVars, srvVars, werVars>>

----------------------------------------------------------------------------
(* Shared helpers *)

\* Python's None for an int-valued local
None == -1

Max(a, b) == IF a >= b THEN a ELSE b

Min(a, b) == IF a <= b THEN a ELSE b

Abs(a) == IF a >= 0 THEN a ELSE 0 - a

\* all sequences over S of length lo..hi
SeqsBetween(S, lo, hi) == UNION {[1..k -> S] : k \in lo..hi}

Range(s) == {s[k] : k \in DOMAIN s}

\* a Python float that is a ratio of two ints, kept exact
Rat(n, d) == [kind |-> "value", num |-> n, den |-> d]

Raise(name) == [kind |-> name, num |-> 0, den |-> 1]

----------------------------------------------------------------------------
(* A component that is not part of the specification being checked stays idle *)

CtcIdle ==
    /\ blank = 0
    /\ ids = <<>>
    /\ collapsed = <<>>
    /\ spans = <<>>
    /\ broke = FALSE
    /\ ctcPc = "idle"

PerIdle ==
    /\ ref = <<>>
    /\ hyp = <<>>
    /\ perOp = "none"
    /\ perOut = Rat(0, 1)
    /\ perRan = FALSE
    /\ perPc = "idle"

DtwIdle ==
    /\ seq1 = <<>>
    /\ seq2 = <<>>
    /\ dtw = <<>>
    /\ path = <<>>
    /\ fell = FALSE
    /\ dtwPc = "idle"

AlnIdle ==
    /\ ppg_test = <<>>
    /\ ppg_ref = <<>>
    /\ acc_cost = <<>>
    /\ index_path = <<>>
    /\ alnFell = FALSE
    /\ alnPc = "idle"

PpgIdle ==
    /\ logp_a = <<>>
    /\ logp_b = <<>>
    /\ ppgBand = None
    /\ downsample = 1
    /\ ppgOp = "none"
    /\ ppgNa = 0
    /\ ppgNb = 0
    /\ ppgBandEff = None
    /\ ppgD = <<>>
    /\ ppgOut = Rat(0, 1)
    /\ ppgRan = FALSE
    /\ ppgPc = "idle"

GopIdle ==
    /\ gop_logp_a = <<>>
    /\ gop_logp_b = <<>>
    /\ gopDownsample = 1
    /\ gopBand = None
    /\ gops_a = <<>>
    /\ gops_b = <<>>
    /\ gopOp = "none"
    /\ gopOut = Rat(0, 1)
    /\ gopRan = FALSE
    /\ gopPc = "idle"

ProIdle ==
    /\ feat1 = <<>>
    /\ feat2 = <<>>
    /\ proOp = "none"
    /\ proPath = <<>>
    /\ proOut = Rat(0, 1)
    /\ proRan = FALSE
    /\ proPc = "idle"

RatIdle ==
    /\ model = "none"
    /\ scaler = "none"
    /\ features = <<>>
    /\ prediction = Rat(0, 1)
    /\ ratOut = Rat(0, 1)
    /\ ratPc = "idle"

SvcIdle ==
    /\ _model = "none"
    /\ _METRIC_INFO = <<>>
    /\ _SCORE_COLUMNS = <<>>
    /\ model_path_exists = <<>>
    /\ svcOp = "none"
    /\ models_dir = "None"
    /\ loadOut = "none"
    /\ featOut = <<>>
    /\ metrics = <<>>
    /\ predicted_score = Rat(0, 1)
    /\ svcOut = Rat(0, 1)
    /\ svcPc = "idle"

ExtIdle ==
    /\ _PPG_EXTRACTORS = <<>>
    /\ instances = <<>>
    /\ device = <<>>
    /\ extractor = <<>>
    /\ extPc = <<>>

SrvIdle ==
    /\ scorer = <<>>
    /\ loads = <<>>
    /\ calls = 0
    /\ requests = 0
    /\ response = "idle"
    /\ ai_scores = <<>>
    /\ request = <<>>
    /\ reply = <<>>
    /\ temp_created = 0
    /\ scorer_runs = 0
    /\ returned = <<>>

WerIdle ==
    /\ test_is_file = FALSE
    /\ gt_is_file = FALSE
    /\ gt_transcript = FALSE
    /\ ground_truth_transcript_path = "None"
    /\ test_result = <<>>
    /\ gt_text_raw = <<>>
    /\ whisper_loads = 0
    /\ transcribed = <<>>
    /\ werOut = Rat(0, 1)
    /\ werPc = "idle"

\* every component outside S is idle
Idle(S) ==
    /\ "ctc" \in S \/ CtcIdle
    /\ "per" \in S \/ PerIdle
    /\ "dtw" \in S \/ DtwIdle
    /\ "aln" \in S \/ AlnIdle
    /\ "ppg" \in S \/ PpgIdle
    /\ "gop" \in S \/ GopIdle
    /\ "pro" \in S \/ ProIdle
    /\ "rat" \in S \/ RatIdle
    /\ "svc" \in S \/ SvcIdle
    /\ "ext" \in S \/ ExtIdle
    /\ "srv" \in S \/ SrvIdle
    /\ "wer" \in S \/ WerIdle

\* a call of a component in S leaves every other component alone
Others(S) ==
    /\ IF "ctc" \in S THEN TRUE ELSE UNCHANGED ctcVars
    /\ IF "per" \in S THEN TRUE ELSE UNCHANGED perVars
    /\ IF "dtw" \in S THEN TRUE ELSE UNCHANGED dtwVars
    /\ IF "aln" \in S THEN TRUE ELSE UNCHANGED alnVars
    /\ IF "ppg" \in S THEN TRUE ELSE UNCHANGED ppgVars
    /\ IF "gop" \in S THEN TRUE ELSE UNCHANGED gopVars
    /\ IF "pro" \in S THEN TRUE ELSE UNCHANGED proVars
    /\ IF "rat" \in S THEN TRUE ELSE UNCHANGED ratVars
    /\ IF "svc" \in S THEN TRUE ELSE UNCHANGED svcVars
    /\ IF "ext" \in S THEN TRUE ELSE UNCHANGED extVars
    /\ IF "srv" \in S THEN TRUE ELSE UNCHANGED srvVars
    /\ IF "wer" \in S THEN TRUE ELSE UNCHANGED werVars

----------------------------------------------------------------------------
(* PhoneCTC.posteriors_and_spans: CTC decoding of the per-frame argmax *)

\* bound: longest argmax sequence explored
MaxFrames == 5

\* bound: largest token id of the vocabulary (ids are 0..MaxTok)
MaxTok == 2

Tokens == 0..MaxTok

\* first loop (lines 152-158): drop blanks, collapse repeats; a blank resets prev
RECURSIVE CollapseLoop(_, _, _, _, _)
CollapseLoop(frames, bl, t, prev, acc) ==
    IF t >= Len(frames) THEN acc
    ELSE LET pid == frames[t + 1] IN
         IF pid = bl THEN CollapseLoop(frames, bl, t + 1, pid, acc)
         ELSE CollapseLoop(frames, bl, t + 1, pid,
                           IF pid # prev THEN Append(acc, pid) ELSE acc)

\* lines 173-180 with a wrong start: the new span opens on the old span's last frame
CloseSpanOverlap(st, coll, t) ==
    LET closed == [st EXCEPT !.spans = Append(@, <<st.cur, st.start, st.last>>),
                             !.j = @ + 1]
    IN IF closed.j >= Len(coll)
       THEN [closed EXCEPT !.broke = TRUE]
       ELSE [closed EXCEPT !.cur = coll[closed.j + 1], !.start = st.last, !.last = t]

\* lines 173-180 with j advanced by two
CloseSpanSkipOne(st, coll, t) ==
    LET closed == [st EXCEPT !.spans = Append(@, <<st.cur, st.start, st.last>>),
                             !.j = @ + 2]
    IN IF closed.j >= Len(coll)
       THEN [closed EXCEPT !.broke = TRUE]
       ELSE [closed EXCEPT !.cur = coll[closed.j + 1], !.start = t, !.last = t]

\* lines 173-180: a non-blank frame that differs from cur closes the span,
\* advances j, and opens the next span labelled collapsed[j]
CloseSpan(st, coll, t) ==
    LET closed == [st EXCEPT !.spans = Append(@, <<st.cur, st.start, st.last>>),
                             !.j = @ + 1]
    IN IF closed.j >= Len(coll)
       THEN [closed EXCEPT !.broke = TRUE]
       ELSE [closed EXCEPT !.cur = coll[closed.j + 1], !.start = t, !.last = t]

\* second loop (lines 165-180), one frame per call; stops at the break
RECURSIVE SpanLoop(_, _, _, _, _)
SpanLoop(frames, bl, coll, t, st) ==
    IF t >= Len(frames) \/ st.broke THEN st
    ELSE LET pid == frames[t + 1] IN
         IF pid = bl THEN SpanLoop(frames, bl, coll, t + 1, st)
         ELSE IF st.start = None /\ pid = st.cur
              THEN SpanLoop(frames, bl, coll, t + 1,
                            [st EXCEPT !.start = t, !.last = t])
         ELSE IF st.start # None /\ pid = st.cur
              THEN SpanLoop(frames, bl, coll, t + 1, [st EXCEPT !.last = t])
         ELSE IF st.start # None /\ pid # st.cur
              THEN SpanLoop(frames, bl, coll, t + 1, CloseSpan(st, coll, t))
         ELSE SpanLoop(frames, bl, coll, t + 1, st)

\* lines 160-180: the span pass without the trailing append of lines 183-184
FindSpansNoTrailing(frames, bl, coll) ==
    IF coll = <<>> THEN [spans |-> <<>>, broke |-> FALSE]
    ELSE LET st == SpanLoop(frames, bl, coll, 0,
                            [j |-> 0, cur |-> coll[1], start |-> None,
                             last |-> None, spans |-> <<>>, broke |-> FALSE])
         IN [spans |-> st.spans, broke |-> st.broke]

\* lines 160-184: the span pass and the trailing append of the last span
FindSpans(frames, bl, coll) ==
    IF coll = <<>> THEN [spans |-> <<>>, broke |-> FALSE]
    ELSE LET st == SpanLoop(frames, bl, coll, 0,
                            [j |-> 0, cur |-> coll[1], start |-> None,
                             last |-> None, spans |-> <<>>, broke |-> FALSE])
         IN [spans |-> IF st.start # None /\ st.j < Len(coll)
                       THEN Append(st.spans, <<st.cur, st.start, st.last>>)
                       ELSE st.spans,
             broke |-> st.broke]

\* a constructed PhoneCTC (self.blank fixed) about to decode one argmax sequence
CtcInit ==
    /\ blank \in Tokens
    /\ ids \in SeqsBetween(Tokens, 0, MaxFrames)
    /\ collapsed = <<>>
    /\ spans = <<>>
    /\ broke = FALSE
    /\ ctcPc = "ready"

\* PhoneCTC.posteriors_and_spans, lines 146-186
PosteriorsAndSpans ==
    /\ ctcPc = "ready"
    /\ LET coll == CollapseLoop(ids, blank, 0, None, <<>>)
           found == FindSpans(ids, blank, coll)
       IN /\ collapsed' = coll
          /\ spans' = found.spans
          /\ broke' = found.broke
    /\ ctcPc' = "done"
    /\ UNCHANGED <<blank, ids>>
    /\ Others({"ctc"})

----------------------------------------------------------------------------
(* Phoneme error rate: _calc_per, calculate_per_similarity and            *)
(* AudioScorer._calculate_per_similarity.  A Python float that is a ratio  *)
(* of two ints is kept as [num, den]; a raised exception is its name.      *)

\* bound: longest phoneme list explored
MaxPhones == 3

\* phoneme symbols (PhoneCTC.phones_from_spans yields strings)
Phones == {"a", "b", "c"}

\* a / b on Python numbers: ZeroDivisionError when b = 0
Div(a, b) == IF b = 0 THEN Raise("ZeroDivisionError") ELSE Rat(a, b)

\* 1.0 - r
OneMinus(r) == IF r.kind # "value" THEN r ELSE Rat(r.den - r.num, r.den)

\* max(0.0, r)
Max0(r) == IF r.kind # "value" THEN r ELSE IF r.num < 0 THEN Rat(0, 1) ELSE r

RatEq(r, n, d) == r.kind = "value" /\ r.num * d = n * r.den

Min3(a, b, c) == Min(a, Min(b, c))

\* dp = [[0] * (m + 1) ...]; dp[i][0] = i; dp[0][j] = j
LevInit(n, m) ==
    [c \in (0..n) \X (0..m) |->
        IF c[2] = 0 THEN c[1] ELSE IF c[1] = 0 THEN c[2] ELSE 0]

\* the inner assignment with the substitution predecessor left out of the min
LevCellNoSub(a, b, i, j, dp) ==
    IF a[i] = b[j] THEN dp[<<i - 1, j - 1>>]
    ELSE 1 + Min(dp[<<i - 1, j>>], dp[<<i, j - 1>>])

\* the inner assignment of the edit-distance loops
LevCell(a, b, i, j, dp) ==
    IF a[i] = b[j] THEN dp[<<i - 1, j - 1>>]
    ELSE 1 + Min3(dp[<<i - 1, j>>], dp[<<i, j - 1>>], dp[<<i - 1, j - 1>>])

\* for i in range(1, n + 1): for j in range(1, m + 1): dp[i][j] = ...
RECURSIVE LevFill(_, _, _, _, _)
LevFill(a, b, i, j, dp) ==
    IF i > Len(a) THEN dp
    ELSE IF j > Len(b) THEN LevFill(a, b, i + 1, 1, dp)
    ELSE LevFill(a, b, i, j + 1, [dp EXCEPT ![<<i, j>>] = LevCell(a, b, i, j, dp)])

\* dp[n][m] after the loops
EditDistance(a, b) ==
    LevFill(a, b, 1, 1, LevInit(Len(a), Len(b)))[<<Len(a), Len(b)>>]

\* _calc_per(ref, hyp)
CalcPer(r, h) ==
    IF Len(r) = 0 THEN Rat(0, 1)
    ELSE Div(EditDistance(r, h), Len(r))

\* calculate_per_similarity from the two phoneme lists on (lines 107-115)
CalculatePerSimilarity(phones_a, phones_b) ==
    IF Len(phones_a) = 0 \/ Len(phones_b) = 0
    THEN [out |-> Rat(0, 1), ran |-> FALSE]
    ELSE [out |-> Max0(OneMinus(CalcPer(phones_a, phones_b))), ran |-> TRUE]

\* AudioScorer._calculate_per_similarity without its empty-reference guard
ScorerPerSimilarityNoGuard(ref_phones, test_phones) ==
    [out |-> Max0(OneMinus(Div(EditDistance(ref_phones, test_phones), Len(ref_phones)))),
     ran |-> TRUE]

\* AudioScorer._calculate_per_similarity(ref_phones, test_phones)
ScorerPerSimilarity(ref_phones, test_phones) ==
    IF ref_phones = <<>>
    THEN [out |-> Rat(0, 1), ran |-> FALSE]
    ELSE [out |-> Max0(OneMinus(Div(EditDistance(ref_phones, test_phones),
                                    Len(ref_phones)))),
          ran |-> TRUE]

PerInit ==
    /\ ref \in SeqsBetween(Phones, 0, MaxPhones)
    /\ hyp \in SeqsBetween(Phones, 0, MaxPhones)
    /\ perOp = "none"
    /\ perOut = Rat(0, 1)
    /\ perRan = FALSE
    /\ perPc = "ready"

CallCalcPer ==
    /\ perPc = "ready"
    /\ perOp' = "_calc_per"
    /\ perOut' = CalcPer(ref, hyp)
    /\ perRan' = (Len(ref) # 0)
    /\ perPc' = "done"
    /\ UNCHANGED <<ref, hyp>>
    /\ Others({"per"})

CallCalculatePerSimilarity ==
    /\ perPc = "ready"
    /\ perOp' = "calculate_per_similarity"
    /\ LET r == CalculatePerSimilarity(ref, hyp)
       IN perOut' = r.out /\ perRan' = r.ran
    /\ perPc' = "done"
    /\ UNCHANGED <<ref, hyp>>
    /\ Others({"per"})

CallScorerPerSimilarity ==
    /\ perPc = "ready"
    /\ perOp' = "AudioScorer._calculate_per_similarity"
    /\ LET r == ScorerPerSimilarity(ref, hyp)
       IN perOut' = r.out /\ perRan' = r.ran
    /\ perPc' = "done"
    /\ UNCHANGED <<ref, hyp>>
    /\ Others({"per"})

----------------------------------------------------------------------------
(* Dynamic time warping: SpeechMetrics.dtw_alignment (Sakoe-Chiba band) and *)
(* _align_ppgs (global).  The accumulated-cost array is a function over    *)
(* (0..n) \X (0..m) filled in the order of the source's loops.             *)

\* bound: longest sequence whose every content is explored
MaxLen == 3

\* np.inf: larger than every finite accumulated cost of the model
Inf == 2000000000

\* the divisor of the band rule max(n, m) // 10
BandDivisor == 10

\* scalar frame values of the 1-D sequences given to dtw_alignment
FrameVals == {0, 1, 2}

\* sequences long enough for max(n, m) // 10 to exceed |n - m|
LongSeqs == {[k \in 1..n |-> (k + s) % 3] : n \in BandDivisor..(BandDivisor + 1), s \in 0..2}

\* cost + x with x possibly np.inf
InfPlus(cost, x) == IF x = Inf THEN Inf ELSE cost + x

\* an argmin that returns the last index holding the minimum
ArgMin3LastOnTie(a, b, c) == IF c <= a /\ c <= b THEN 2 ELSE IF b <= a THEN 1 ELSE 0

\* np.argmin over three candidates: the first index holding the minimum
ArgMin3(a, b, c) == IF a <= b /\ a <= c THEN 0 ELSE IF b <= c THEN 1 ELSE 2

\* np.full((n + 1, m + 1), np.inf); a[0, 0] = 0.0
FullInf(n, m) ==
    [c \in (0..n) \X (0..m) |-> IF c = <<0, 0>> THEN 0 ELSE Inf]

\* euclidean(seq1[i - 1], seq2[j - 1]) for 1-D sequences reshaped to columns
EuclideanCost(s1, s2) ==
    [c \in (1..Len(s1)) \X (1..Len(s2)) |-> Abs(s1[c[1]] - s2[c[2]])]

\* the band rule without the |n - m| term
DtwBandNoDiff(n, m) == Max(n, m) \div BandDivisor

\* band = max(abs(n - m), max(n, m) // 10)
DtwBand(n, m) == Max(Abs(n - m), Max(n, m) \div BandDivisor)

\* dtw[i, j] = cost + min(dtw[i-1, j], dtw[i, j-1], dtw[i-1, j-1])
DtwCell(cost, i, j, tab) ==
    InfPlus(cost[<<i, j>>],
            Min3(tab[<<i - 1, j>>], tab[<<i, j - 1>>], tab[<<i - 1, j - 1>>]))

\* forward pass (lines 72-82): row i covers j in max(1, i-band)..min(m, i+band)
RECURSIVE DtwFill(_, _, _, _, _, _, _)
DtwFill(n, m, band, cost, i, j, tab) ==
    IF i > n THEN tab
    ELSE IF j > Min(m, i + band)
         THEN DtwFill(n, m, band, cost, i + 1, Max(1, i + 1 - band), tab)
         ELSE DtwFill(n, m, band, cost, i, j + 1,
                      [tab EXCEPT ![<<i, j>>] = DtwCell(cost, i, j, tab)])

\* the path entry with the 1-based cell index left unconverted
PathEntryOneBased(i, j) == <<i, j>>

\* path.append((i - 1, j - 1)): the cell as 0-based sequence indices
PathEntry(i, j) == <<i - 1, j - 1>>

\* a backtrack that takes the diagonal whenever it is finite
BacktrackStepDiagFirst(tab, i, j) ==
    IF tab[<<i - 1, j - 1>>] < Inf THEN 0
    ELSE ArgMin3(tab[<<i - 1, j - 1>>], tab[<<i - 1, j>>], tab[<<i, j - 1>>])

\* candidates = [diag, up, left]; step = np.argmin(candidates)
BacktrackStep(tab, i, j) ==
    ArgMin3(tab[<<i - 1, j - 1>>], tab[<<i - 1, j>>], tab[<<i, j - 1>>])

\* while i > 0 and j > 0 (lines 88-101); returns where the loop stopped
RECURSIVE DtwBacktrack(_, _, _, _)
DtwBacktrack(tab, i, j, acc) ==
    IF i > 0 /\ j > 0
    THEN LET step == BacktrackStep(tab, i, j)
             p == Append(acc, PathEntry(i, j))
         IN IF step = 0 THEN DtwBacktrack(tab, i - 1, j - 1, p)
            ELSE IF step = 1 THEN DtwBacktrack(tab, i - 1, j, p)
            ELSE DtwBacktrack(tab, i, j - 1, p)
    ELSE [i |-> i, j |-> j, path |-> acc]

\* while i > 0: path.append((i - 1, 0)); i -= 1
RECURSIVE DrainI(_, _)
DrainI(i, acc) == IF i > 0 THEN DrainI(i - 1, Append(acc, <<i - 1, 0>>)) ELSE acc

\* while j > 0: path.append((0, j - 1)); j -= 1
RECURSIVE DrainJ(_, _)
DrainJ(j, acc) == IF j > 0 THEN DrainJ(j - 1, Append(acc, <<0, j - 1>>)) ELSE acc

\* list.reverse()
Reverse(s) == [k \in 1..Len(s) |-> s[Len(s) + 1 - k]]

\* SpeechMetrics.dtw_alignment, lines 55-112, given the n by m matrix of
\* the euclidean costs of the frame pairs
DtwAlignmentOn(n, m, cost) ==
    LET band == DtwBand(n, m)
        tab == DtwFill(n, m, band, cost, 1, Max(1, 1 - band), FullInf(n, m))
        bt == DtwBacktrack(tab, n, m, <<>>)
    IN [dtw |-> tab,
        path |-> Reverse(DrainJ(bt.j, DrainI(bt.i, bt.path))),
        fell |-> (bt.i > 0 \/ bt.j > 0)]

\* SpeechMetrics.dtw_alignment(seq1, seq2) for 1-D sequences
DtwAlignment(s1, s2) == DtwAlignmentOn(Len(s1), Len(s2), EuclideanCost(s1, s2))

DtwInit ==
    /\ seq1 \in SeqsBetween(FrameVals, 0, MaxLen)
    /\ seq2 \in SeqsBetween(FrameVals, 0, MaxLen)
    /\ dtw = <<>>
    /\ path = <<>>
    /\ fell = FALSE
    /\ dtwPc = "ready"

\* as DtwInit, and pairs of sequences of 10 and 11 frames
DtwBandInit ==
    /\ \/ /\ seq1 \in SeqsBetween(FrameVals, 0, MaxLen)
          /\ seq2 \in SeqsBetween(FrameVals, 0, MaxLen)
       \/ /\ seq1 \in LongSeqs
          /\ seq2 \in LongSeqs
    /\ dtw = <<>>
    /\ path = <<>>
    /\ fell = FALSE
    /\ dtwPc = "ready"

\* a sequence of one repeated value, long enough for a band of 1
LongFlat == [k \in 1..BandDivisor |-> 1]

\* a sequence about to be aligned with itself
DtwSelfInit ==
    /\ seq1 \in SeqsBetween(FrameVals, 0, MaxLen) \cup LongSeqs \cup {LongFlat}
    /\ seq2 = seq1
    /\ dtw = <<>>
    /\ path = <<>>
    /\ fell = FALSE
    /\ dtwPc = "ready"

CallDtwAlignment ==
    /\ dtwPc = "ready"
    /\ LET r == DtwAlignment(seq1, seq2)
       IN /\ dtw' = r.dtw
          /\ path' = r.path
          /\ fell' = r.fell
    /\ dtwPc' = "done"
    /\ UNCHANGED <<seq1, seq2>>
    /\ Others({"dtw"})

\* posterior frames given to _align_ppgs: vectors with integer norms, so
\* that every cosine is an exact multiple of 1 / DistUnit
PpgFrames == {<<1, 0>>, <<0, 1>>, <<3, 4>>}

\* the unit of the distance matrix: distance 1.0 is DistUnit
DistUnit == 25

Dot(u, v) == u[1] * v[1] + u[2] * v[2]

Norm(u) == CHOOSE r \in 0..Dot(u, u) : r * r = Dot(u, u)

\* (1.0 - F.cosine_similarity(...).clamp(-1, 1)) in units of 1 / DistUnit
CosineDistance(test, refs) ==
    [c \in (1..Len(test)) \X (1..Len(refs)) |->
        DistUnit - (DistUnit * Dot(test[c[1]], refs[c[2]]))
                   \div (Norm(test[c[1]]) * Norm(refs[c[2]]))]

\* forward pass of _align_ppgs (lines 176-183): every cell, no band
RECURSIVE AccFill(_, _, _, _, _, _)
AccFill(n, m, cost, i, j, tab) ==
    IF i > n THEN tab
    ELSE IF j > m THEN AccFill(n, m, cost, i + 1, 1, tab)
    ELSE AccFill(n, m, cost, i, j + 1,
                 [tab EXCEPT ![<<i, j>>] = DtwCell(cost, i, j, tab)])

\* prev_choices = (up, left, diag); move = argmin
AlnMove(tab, i, j) ==
    ArgMin3(tab[<<i - 1, j>>], tab[<<i, j - 1>>], tab[<<i - 1, j - 1>>])

\* while i > 0 and j > 0 (lines 189-204)
RECURSIVE AlnBacktrack(_, _, _, _)
AlnBacktrack(tab, i, j, acc) ==
    IF i > 0 /\ j > 0
    THEN LET move == AlnMove(tab, i, j)
             p == Append(acc, <<i - 1, j - 1>>)
         IN IF move = 0 THEN AlnBacktrack(tab, i - 1, j, p)
            ELSE IF move = 1 THEN AlnBacktrack(tab, i, j - 1, p)
            ELSE AlnBacktrack(tab, i - 1, j - 1, p)
    ELSE [i |-> i, j |-> j, path |-> acc]

\* _align_ppgs(ppg_test, ppg_ref) up to the index path (lines 159-216);
\* path_test and path_ref are kept zipped
AlignPpgs(test, refs) ==
    LET n == Len(test)
        m == Len(refs)
    IN IF n = 0 \/ m = 0
       THEN [acc |-> <<>>, path |-> <<>>, fell |-> FALSE]
       ELSE LET tab == AccFill(n, m, CosineDistance(test, refs), 1, 1, FullInf(n, m))
                bt == AlnBacktrack(tab, n, m, <<>>)
            IN [acc |-> tab,
                path |-> Reverse(DrainJ(bt.j, DrainI(bt.i, bt.path))),
                fell |-> (bt.i > 0 \/ bt.j > 0)]

AlnInit ==
    /\ ppg_test \in SeqsBetween(PpgFrames, 0, MaxLen)
    /\ ppg_ref \in SeqsBetween(PpgFrames, 0, MaxLen)
    /\ acc_cost = <<>>
    /\ index_path = <<>>
    /\ alnFell = FALSE
    /\ alnPc = "ready"

CallAlignPpgs ==
    /\ alnPc = "ready"
    /\ LET r == AlignPpgs(ppg_test, ppg_ref)
       IN /\ acc_cost' = r.acc
          /\ index_path' = r.path
          /\ alnFell' = r.fell
    /\ alnPc' = "done"
    /\ UNCHANGED <<ppg_test, ppg_ref>>
    /\ Others({"aln"})

----------------------------------------------------------------------------
(* Posteriorgram similarity: _jsd_divergence, _dtw_distance,               *)
(* _ppg_jsd_similarity and calculate_ppg_similarity of phoneme_ppg.py, and *)
(* AudioScorer._calculate_ppg_similarity.  A posteriorgram is the sequence *)
(* of its frames, and a frame is the non-blank class that carries its      *)
(* probability mass: removing the blank column and renormalising leaves    *)
(* such a frame as it is.  Costs are in units of ln 2, the divergence of   *)
(* two frames of different classes.  metric is left at "jsd", the branch   *)
(* that uses the band.                                                     *)

\* bound: longest posteriorgram whose every content is explored
MaxPpgFrames == 3

\* non-blank classes of the vocabulary
PpgClasses == {1, 2}

\* posteriorgrams shorter than this are not assessed
MinFrames == 5

\* D[i, :] = 1e6, in units of ln 2
Sentinel == 1442695

\* np.exp(-dist) is 0.0 once dist exceeds 745.13, which is 1075 ln 2
ExpUnderflow == 1075

\* posteriorgrams of 5 to 7 frames
MidPpgs == {[k \in 1..n |-> 1 + ((k + s) % 2)] : n \in MinFrames..(MinFrames + 2), s \in 0..1}

\* posteriorgrams of 60 and 73 frames: lengths more than 20% apart whose
\* widened band still leaves cells of the cost matrix outside
LongPpgs == {[k \in 1..n |-> 1 + (((k * k) + s) % 2)] : n \in {60, 73}, s \in 0..1}

\* band arguments given to the calls
PpgBands == {None, 0, 2, 60}

\* float results that are not numbers
FloatNaN == [kind |-> "nan", num |-> 0, den |-> 1]

FloatInf == [kind |-> "inf", num |-> 0, den |-> 1]

\* x[::k]
Stride(s, k) == [t \in 1..((Len(s) + k - 1) \div k) |-> s[((t - 1) * k) + 1]]

\* _jsd_divergence(p, q) of two frames, in units of ln 2
JsdDivergence(p, q) == IF p = q THEN 0 ELSE 1

\* length_ratio > 1.2, where length_ratio is 1.0 when min(na, nb) is 0
LengthRatioLarge(na, nb) ==
    /\ Min(na, nb) > 0
    /\ 5 * Max(na, nb) > 6 * Min(na, nb)

\* the suggested band without its offset of 50
SuggestedBandNoOffset(na, nb) == (3 * Abs(na - nb)) \div 2

\* suggested_band = int(abs(na - nb) * 1.5 + 50)
SuggestedBand(na, nb) == ((3 * Abs(na - nb)) + 100) \div 2

\* lines 123-131: the band after the automatic adjustment
WidenBand(b, na, nb) ==
    IF b # None /\ LengthRatioLarge(na, nb) /\ b < SuggestedBand(na, nb)
    THEN SuggestedBand(na, nb)
    ELSE b

\* lines 135-144: row i is set to the sentinel, then columns
\* max(0, i - band) .. min(nb, i + band + 1) - 1 are computed
JsdMatrix(Pa, Pb, b) ==
    [c \in (0..(Len(Pa) - 1)) \X (0..(Len(Pb) - 1)) |->
        IF b = None \/ (c[2] >= Max(0, c[1] - b) /\ c[2] < Min(Len(Pb), c[1] + b + 1))
        THEN JsdDivergence(Pa[c[1] + 1], Pb[c[2] + 1])
        ELSE Sentinel]

\* for j in range(1, m + 1): acc[i, j] = D[i - 1, j - 1] + min(...); prev is
\* acc[i - 1, 0..m] and st holds j and the columns of acc[i, .] filled so far
RECURSIVE AccRow(_, _, _, _, _)
AccRow(D, i, m, prev, st) ==
    IF st.j > m THEN st.row
    ELSE AccRow(D, i, m, prev,
                [j |-> st.j + 1,
                 row |-> Append(st.row,
                                InfPlus(D[<<i - 1, st.j - 1>>],
                                        Min3(prev[st.j + 1], st.row[st.j], prev[st.j])))])

\* for i in range(1, n + 1): ...; st holds i and acc[i - 1, 0..m]
RECURSIVE AccRows(_, _, _, _)
AccRows(D, n, m, st) ==
    IF st.i > n THEN st.prev
    ELSE AccRows(D, n, m,
                 [i |-> st.i + 1,
                  prev |-> AccRow(D, st.i, m, st.prev, [j |-> 1, row |-> <<Inf>>])])

\* _dtw_distance(D) for D of shape (n, m): acc[n, m] / (n + m)
DtwDistance(D, n, m) ==
    LET last == AccRows(D, n, m,
                        [i |-> 1, prev |-> [j \in 1..(m + 1) |-> IF j = 1 THEN 0 ELSE Inf]])
    IN IF n + m = 0 THEN FloatNaN
       ELSE IF last[m + 1] = Inf THEN FloatInf
       ELSE Rat(last[m + 1], n + m)

\* float(max(0.0, min(1.0, np.exp(-dist)))) for dist in units of ln 2;
\* min(1.0, nan) is 1.0 because no comparison with nan holds; a value
\* strictly between 0 and 1 is kept as 2 ^ -(num / den)
ExpNegClamped(dist) ==
    IF dist.kind = "nan" THEN Rat(1, 1)
    ELSE IF dist.kind = "inf" THEN Rat(0, 1)
    ELSE IF dist.num = 0 THEN Rat(1, 1)
    ELSE IF dist.num > ExpUnderflow * dist.den THEN Rat(0, 1)
    ELSE [kind |-> "two_to_minus", num |-> dist.num, den |-> dist.den]

\* _ppg_jsd_similarity(logp_a, logp_b, blank_id, "jsd", band, downsample)
PpgJsdSimilarity(la, lb, b, ds) ==
    LET Pa == IF ds > 1 THEN Stride(la, ds) ELSE la
        Pb == IF ds > 1 THEN Stride(lb, ds) ELSE lb
        na == Len(Pa)
        nb == Len(Pb)
        eff == WidenBand(b, na, nb)
        D == JsdMatrix(Pa, Pb, eff)
    IN [na |-> na, nb |-> nb, band |-> eff, D |-> D,
        out |-> ExpNegClamped(DtwDistance(D, na, nb)), ran |-> TRUE]

\* calculate_ppg_similarity from the two posteriorgrams on (lines 235-244)
CalculatePpgSimilarity(la, lb, b, ds) ==
    IF Len(la) < MinFrames \/ Len(lb) < MinFrames
    THEN [na |-> 0, nb |-> 0, band |-> b, D |-> <<>>, out |-> Rat(0, 1), ran |-> FALSE]
    ELSE PpgJsdSimilarity(la, lb, b, ds)

\* number of frames of class c
ClassCount(l, c) == Cardinality({t \in DOMAIN l : l[t] = c})

\* sum over the classes of the products of the two counts
CountDot(la, lb) ==
    (ClassCount(la, 1) * ClassCount(lb, 1)) + (ClassCount(la, 2) * ClassCount(lb, 2))

\* AudioScorer._calculate_ppg_similarity(ref_logp, test_logp): the mean
\* posterior of a posteriorgram is its class counts over its length, and the
\* cosine of two means is the cosine of the counts.  The mean of no frames
\* is nan.  A cosine that is not 0 or 1 is kept as its square num / den.
ScorerPpgSimilarity(ref_logp, test_logp) ==
    IF Len(ref_logp) = 0 \/ Len(test_logp) = 0 THEN FloatNaN
    ELSE LET dot == CountDot(ref_logp, test_logp)
             sq == CountDot(ref_logp, ref_logp) * CountDot(test_logp, test_logp)
         IN IF dot = 0 THEN Rat(1, 2)
            ELSE IF dot * dot = sq THEN Rat(1, 1)
            ELSE [kind |-> "half_of_one_plus_cosine", num |-> dot * dot, den |-> sq]

PpgInitOf(S) ==
    /\ logp_a \in S
    /\ logp_b \in S
    /\ ppgBand \in PpgBands
    /\ downsample \in {1, 3}
    /\ ppgOp = "none"
    /\ ppgNa = 0
    /\ ppgNb = 0
    /\ ppgBandEff = None
    /\ ppgD = <<>>
    /\ ppgOut = Rat(0, 1)
    /\ ppgRan = FALSE
    /\ ppgPc = "ready"

PpgInit == PpgInitOf(SeqsBetween(PpgClasses, 0, MaxPpgFrames) \cup MidPpgs)

\* as PpgInit, and posteriorgrams of 60 and 73 frames
PpgBandInit == PpgInitOf(SeqsBetween(PpgClasses, 0, MaxPpgFrames) \cup LongPpgs)

PpgReturn(op, r) ==
    /\ ppgOp' = op
    /\ ppgNa' = r.na
    /\ ppgNb' = r.nb
    /\ ppgBandEff' = r.band
    /\ ppgD' = r.D
    /\ ppgOut' = r.out
    /\ ppgRan' = r.ran
    /\ ppgPc' = "done"
    /\ UNCHANGED <<logp_a, logp_b, ppgBand, downsample>>
    /\ Others({"ppg"})

CallPpgJsdSimilarity ==
    /\ ppgPc = "ready"
    /\ PpgReturn("_ppg_jsd_similarity",
                 PpgJsdSimilarity(logp_a, logp_b, ppgBand, downsample))

CallCalculatePpgSimilarity ==
    /\ ppgPc = "ready"
    /\ PpgReturn("calculate_ppg_similarity",
                 CalculatePpgSimilarity(logp_a, logp_b, ppgBand, downsample))

CallScorerPpgSimilarity ==
    /\ ppgPc = "ready"
    /\ PpgReturn("AudioScorer._calculate_ppg_similarity",
                 [na |-> 0, nb |-> 0, band |-> ppgBand, D |-> <<>>,
                  out |-> ScorerPpgSimilarity(logp_a, logp_b), ran |-> TRUE])

----------------------------------------------------------------------------
(* GOP similarity: _gops_from_spans, _dtw_phone and calculate_gop_similarity *)
(* of phoneme_gop.py.  A log-posteriorgram is the sequence of its frames; a *)
(* frame gives the log-probability of each class 0..2 in hundredths, class  *)
(* 0 being the blank.  GOP scores and alignment costs are in units of       *)
(* 1 / (100 * GopScale), so that the mean over a span of frames is exact.   *)
(* tau and lam are left at their defaults 1.0 and 0.01.                     *)

\* bound: longest GOP list whose every content is given to _dtw_phone
MaxGops == 3

\* bound: longest log-posteriorgram whose every content is explored
MaxGopFrames == 2

\* ctc.blank
BlankId == 0

\* every span duration up to 7 frames divides it
GopScale == 420

\* 1.0 in cost units
GopOne == 100 * GopScale

\* lam * 1 frame of duration difference
PhoneLam == GopOne \div 100

\* the cost 0.5 of leaving a phone unmatched
PhoneStep == GopOne \div 2

\* the substitution cost 1.5 of two different phones
PhonePenalty == (3 * GopOne) \div 2

FrameBlank == <<-10, -300, -400>>

FrameOne == <<-400, -10, -300>>

FrameOneWeak == <<-300, -60, -100>>

FrameTwo == <<-400, -300, -10>>

GopFrames == {FrameBlank, FrameOne, FrameOneWeak, FrameTwo}

\* log-posteriorgrams of 5 to 7 frames
LongLogps ==
    {<<FrameOne, FrameOne, FrameBlank, FrameTwo, FrameTwo>>,
     <<FrameOne, FrameBlank, FrameOne, FrameTwo, FrameTwo>>,
     <<FrameBlank, FrameBlank, FrameBlank, FrameBlank, FrameBlank>>,
     <<FrameOne, FrameOneWeak, FrameBlank, FrameTwo, FrameTwo, FrameTwo>>,
     <<FrameTwo, FrameTwo, FrameTwo, FrameOneWeak, FrameOneWeak, FrameOne>>,
     <<FrameOneWeak, FrameOneWeak, FrameOneWeak, FrameTwo, FrameTwo, FrameBlank, FrameOne>>}

\* (phoneme_id, gop_score, duration) entries given to _dtw_phone
GopEntries == {<<1, 0, 1>>, <<1, GopOne \div 2, 3>>, <<2, 0, 1>>}

\* band arguments given to the calls
GopBands == {None, 0, 1}

SetMax(S) == CHOOSE x \in S : \A y \in S : y <= x

\* torch.argmax(logp, dim=-1) of one frame: the first class holding the maximum
ArgMax(fr) ==
    CHOOSE c \in 0..(Len(fr) - 1) :
        /\ \A d \in 0..(Len(fr) - 1) : fr[d + 1] <= fr[c + 1]
        /\ \A d \in 0..(c - 1) : fr[d + 1] < fr[c + 1]

\* the spans posteriors_and_spans returns with a log-posteriorgram
PosteriorSpans(logp) ==
    LET am == [t \in 1..Len(logp) |-> ArgMax(logp[t])]
    IN FindSpans(am, BlankId, CollapseLoop(am, BlankId, 0, None, <<>>)).spans

\* the spans left on the time axis of the full posteriorgram
ScaleSpansUnscaled(sp, ds) == sp

\* [(pid, t1 // downsample, t2 // downsample) for pid, t1, t2 in spans]
ScaleSpans(sp, ds) ==
    [k \in DOMAIN sp |-> <<sp[k][1], sp[k][2] \div ds, sp[k][3] \div ds>>]

\* torch.max(seg[:, mask], dim=-1): the best class other than pid and the blank
Competitor(fr, pid, bl) ==
    SetMax({fr[c + 1] : c \in (0..(Len(fr) - 1)) \ {pid, bl}})

\* the sum over frames t..t2 of lp - comp
RECURSIVE SumGop(_, _, _, _, _)
SumGop(logp, pid, bl, t, t2) ==
    IF t > t2 THEN 0
    ELSE (logp[t + 1][pid + 1] - Competitor(logp[t + 1], pid, bl))
         + SumGop(logp, pid, bl, t + 1, t2)

\* (lp - comp).mean() over the span's frames
SpanGop(logp, pid, bl, t1, t2) ==
    (SumGop(logp, pid, bl, t1, t2) * GopScale) \div ((t2 - t1) + 1)

\* _gops_from_spans(logp, spans, blank_id); k is the index of the next span
RECURSIVE GopsFromSpans(_, _, _, _, _)
GopsFromSpans(logp, sp, bl, k, out) ==
    IF k > Len(sp) THEN out
    ELSE LET pid == sp[k][1]
             t1 == sp[k][2]
             t2 == sp[k][3]
         IN IF t1 > t2 \/ t1 < 0 \/ t2 >= Len(logp)
            THEN GopsFromSpans(logp, sp, bl, k + 1, out)
            ELSE GopsFromSpans(logp, sp, bl, k + 1,
                               Append(out, <<pid, SpanGop(logp, pid, bl, t1, t2),
                                             (t2 - t1) + 1>>))

\* lines 116-121 with different phones costing no more than a step
PhoneCostCheapMismatch(ga, gb) ==
    IF ga[1] = gb[1]
    THEN Abs(ga[2] - gb[2]) + (PhoneLam * Abs(ga[3] - gb[3]))
    ELSE PhoneStep

\* lines 116-121: same phone compares GOP and duration, different phones cost 1.5
PhoneCost(ga, gb) ==
    IF ga[1] = gb[1]
    THEN Abs(ga[2] - gb[2]) + (PhoneLam * Abs(ga[3] - gb[3]))
    ELSE PhonePenalty

\* line 123 with the 0.5 step charged on the diagonal move as well
PhoneCellStepOnDiagonal(ga, gb, i, j, D) ==
    Min3(InfPlus(PhoneStep, D[<<i - 1, j>>]),
         InfPlus(PhoneStep, D[<<i, j - 1>>]),
         InfPlus(PhoneStep + PhoneCost(ga[i], gb[j]), D[<<i - 1, j - 1>>]))

\* line 123
PhoneCell(ga, gb, i, j, D) ==
    Min3(InfPlus(PhoneStep, D[<<i - 1, j>>]),
         InfPlus(PhoneStep, D[<<i, j - 1>>]),
         InfPlus(PhoneCost(ga[i], gb[j]), D[<<i - 1, j - 1>>]))

\* jmin = 1 if band is None else max(1, i - band)
PhoneJmin(b, i) == IF b = None THEN 1 ELSE Max(1, i - b)

PhoneJmaxUnbanded(b, i, m) == m

\* jmax = m if band is None else min(m, i + band)
PhoneJmax(b, i, m) == IF b = None THEN m ELSE Min(m, i + b)

\* lines 106-123; st holds i, j and D
RECURSIVE PhoneFill(_, _, _, _)
PhoneFill(ga, gb, b, st) ==
    IF st.i > Len(ga) THEN st.D
    ELSE IF st.j > PhoneJmax(b, st.i, Len(gb))
         THEN PhoneFill(ga, gb, b,
                        [i |-> st.i + 1, j |-> PhoneJmin(b, st.i + 1), D |-> st.D])
         ELSE PhoneFill(ga, gb, b,
                        [i |-> st.i, j |-> st.j + 1,
                         D |-> [st.D EXCEPT ![<<st.i, st.j>>] =
                                    PhoneCell(ga, gb, st.i, st.j, st.D)]])

\* float(math.exp(-dist / tau)) with dist = total / (n + m); a value strictly
\* between 0 and 1 is kept as e ^ -(num / den)
ExpNegDist(total, n, m) ==
    IF total = Inf THEN Rat(0, 1)
    ELSE IF total = 0 THEN Rat(1, 1)
    ELSE [kind |-> "exp_neg", num |-> total, den |-> (n + m) * GopOne]

\* _dtw_phone(gops_a, gops_b, band=band)
DtwPhone(ga, gb, b) ==
    IF ga = <<>> \/ gb = <<>>
    THEN [out |-> Rat(0, 1), ran |-> FALSE]
    ELSE LET n == Len(ga)
             m == Len(gb)
             D == PhoneFill(ga, gb, b,
                            [i |-> 1, j |-> PhoneJmin(b, 1), D |-> FullInf(n, m)])
         IN [out |-> ExpNegDist(D[<<n, m>>], n, m), ran |-> TRUE]

\* calculate_gop_similarity from the two log-posteriorgrams on (lines 191-214)
CalculateGopSimilarity(la, lb, b, ds) ==
    IF Len(la) < MinFrames \/ Len(lb) < MinFrames
    THEN [ga |-> <<>>, gb |-> <<>>, out |-> Rat(0, 1), ran |-> FALSE]
    ELSE LET sa == IF ds > 1 THEN ScaleSpans(PosteriorSpans(la), ds) ELSE PosteriorSpans(la)
             sb == IF ds > 1 THEN ScaleSpans(PosteriorSpans(lb), ds) ELSE PosteriorSpans(lb)
             ga == GopsFromSpans(IF ds > 1 THEN Stride(la, ds) ELSE la, sa, BlankId, 1, <<>>)
             gb == GopsFromSpans(IF ds > 1 THEN Stride(lb, ds) ELSE lb, sb, BlankId, 1, <<>>)
             r == DtwPhone(ga, gb, b)
         IN [ga |-> ga, gb |-> gb, out |-> r.out, ran |-> r.ran]

\* two GOP lists about to be given to _dtw_phone
GopListsInit ==
    /\ gop_logp_a = <<>>
    /\ gop_logp_b = <<>>
    /\ gopDownsample = 1
    /\ gopBand \in GopBands
    /\ gops_a \in SeqsBetween(GopEntries, 0, MaxGops)
    /\ gops_b \in SeqsBetween(GopEntries, 0, MaxGops)
    /\ gopOp = "none"
    /\ gopOut = Rat(0, 1)
    /\ gopRan = FALSE
    /\ gopPc = "lists"

\* the log-posteriorgrams of two recordings about to be compared
GopAudioInit ==
    /\ gop_logp_a \in SeqsBetween(GopFrames, 0, MaxGopFrames) \cup LongLogps
    /\ gop_logp_b \in SeqsBetween(GopFrames, 0, MaxGopFrames) \cup LongLogps
    /\ gopDownsample \in {1, 3}
    /\ gopBand \in GopBands
    /\ gops_a = <<>>
    /\ gops_b = <<>>
    /\ gopOp = "none"
    /\ gopOut = Rat(0, 1)
    /\ gopRan = FALSE
    /\ gopPc = "audio"

CallDtwPhone ==
    /\ gopPc = "lists"
    /\ gopOp' = "_dtw_phone"
    /\ LET r == DtwPhone(gops_a, gops_b, gopBand)
       IN gopOut' = r.out /\ gopRan' = r.ran
    /\ gopPc' = "done"
    /\ UNCHANGED <<gop_logp_a, gop_logp_b, gopDownsample, gopBand, gops_a, gops_b>>
    /\ Others({"gop"})

CallCalculateGopSimilarity ==
    /\ gopPc = "audio"
    /\ gopOp' = "calculate_gop_similarity"
    /\ LET r == CalculateGopSimilarity(gop_logp_a, gop_logp_b, gopBand, gopDownsample)
       IN /\ gops_a' = r.ga
          /\ gops_b' = r.gb
          /\ gopOut' = r.out
          /\ gopRan' = r.ran
    /\ gopPc' = "done"
    /\ UNCHANGED <<gop_logp_a, gop_logp_b, gopDownsample, gopBand>>
    /\ Others({"gop"})

----------------------------------------------------------------------------
(* Prosodic metrics: SpeechMetrics.align_features, calculate_vde,          *)
(* calculate_gpe and calculate_ffe.  The features of a recording are its   *)
(* frames <<f0, intensity>>; voiced is f0 > 0 and intensity > 30 as        *)
(* extract_features sets it.  Normalised features are fixed-point numbers  *)
(* with FeatScale for 1.0, and a euclidean cost is rounded down to that    *)
(* resolution.                                                             *)

\* bound: longest feature sequence whose every content is explored
MaxFeat == 2

\* 1.0 in normalised feature units
FeatScale == 100

\* self.gpe_threshold, in Hz
GpeThreshold == 20

\* intensity above which a frame with f0 > 0 is voiced
VoicedIntensity == 30

\* frames <<f0 in Hz, intensity in dB>>: unvoiced ones, and voiced ones whose
\* pitches differ by less and by more than the gross-error limits
FeatFrames == {<<0, 0>>, <<100, 60>>, <<130, 60>>, <<100, 20>>, <<82, 60>>}

\* feature sequences of 3 and 4 frames
LongFeats ==
    {<<<<100, 60>>, <<100, 60>>, <<0, 0>>>>,
     <<<<100, 60>>, <<130, 60>>, <<0, 0>>, <<100, 20>>>>,
     <<<<0, 0>>, <<130, 60>>, <<130, 60>>, <<100, 60>>>>}

\* voiced = (f0_values > 0.0) & (intensity_values > 30.0)
Voiced(fr) == fr[1] > 0 /\ fr[2] > VoicedIntensity

ISqrt(x) == CHOOSE r \in 0..(2 * FeatScale) : r * r <= x /\ x < (r + 1) * (r + 1)

\* _safe_norm(x) of a non-empty array: x / max(max|x|, 1e-6)
SafeNorm(xs) ==
    LET denom == SetMax({Abs(xs[k]) : k \in DOMAIN xs})
    IN [k \in DOMAIN xs |-> IF denom = 0 THEN 0 ELSE (xs[k] * FeatScale) \div denom]

\* np.column_stack([_safe_norm(f0), _safe_norm(intensity), voiced.astype(float)])
Combined(feat) ==
    LET f0 == SafeNorm([k \in DOMAIN feat |-> feat[k][1]])
        intensity == SafeNorm([k \in DOMAIN feat |-> feat[k][2]])
    IN [k \in DOMAIN feat |->
           <<f0[k], intensity[k], IF Voiced(feat[k]) THEN FeatScale ELSE 0>>]

\* euclidean(seq1[i - 1], seq2[j - 1]) for the 3-column rows
EuclideanCost3(c1, c2) ==
    [c \in (1..Len(c1)) \X (1..Len(c2)) |->
        ISqrt(((c1[c[1]][1] - c2[c[2]][1]) * (c1[c[1]][1] - c2[c[2]][1]))
              + ((c1[c[1]][2] - c2[c[2]][2]) * (c1[c[1]][2] - c2[c[2]][2]))
              + ((c1[c[1]][3] - c2[c[2]][3]) * (c1[c[1]][3] - c2[c[2]][3])))]

\* align_features(feat1, feat2): the alignment path, by which the aligned
\* features are indexed.  np.max of an empty array raises ValueError.
AlignFeatures(f1, f2) ==
    IF f1 = <<>> \/ f2 = <<>>
    THEN [kind |-> "ValueError", path |-> <<>>, ran |-> FALSE]
    ELSE [kind |-> "value",
          path |-> DtwAlignmentOn(Len(f1), Len(f2),
                                  EuclideanCost3(Combined(f1), Combined(f2))).path,
          ran |-> TRUE]

\* the aligned frame pairs
AlignedPairs(f1, f2, p) == [k \in DOMAIN p |-> <<f1[p[k][1] + 1], f2[p[k][2] + 1]>>]

\* np.logical_xor(voiced_ref, voiced_test)
VdeError(pr) == Voiced(pr[1]) # Voiced(pr[2])

\* both voiced, both f0 > 0, and (rel_err > 0.2) | (abs_err > gpe_threshold)
GpeError(pr) ==
    /\ Voiced(pr[1]) /\ Voiced(pr[2])
    /\ \/ 5 * Abs(pr[2][1] - pr[1][1]) > pr[1][1]
       \/ Abs(pr[2][1] - pr[1][1]) > GpeThreshold

CountOf(prs, P(_)) == Cardinality({k \in DOMAIN prs : P(prs[k])})

BothVoiced(pr) == Voiced(pr[1]) /\ Voiced(pr[2])

\* calculate_vde from the two feature dicts on (lines 163-169)
CalculateVde(f1, f2) ==
    LET al == AlignFeatures(f1, f2)
        prs == AlignedPairs(f1, f2, al.path)
    IN [path |-> al.path, ran |-> al.ran,
        out |-> IF al.kind # "value" THEN Raise(al.kind)
                ELSE OneMinus(Div(CountOf(prs, VdeError), Len(prs)))]

\* calculate_gpe from the two feature dicts on (lines 182-208)
CalculateGpe(f1, f2) ==
    LET al == AlignFeatures(f1, f2)
        prs == AlignedPairs(f1, f2, al.path)
    IN [path |-> al.path, ran |-> al.ran,
        out |-> IF al.kind # "value" THEN Raise(al.kind)
                ELSE IF CountOf(prs, BothVoiced) = 0 THEN Rat(0, 1)
                ELSE OneMinus(Div(CountOf(prs, GpeError), CountOf(prs, BothVoiced)))]

FfeError(pr) == VdeError(pr) \/ GpeError(pr)

\* calculate_ffe from the two feature dicts on (lines 328-352)
CalculateFfe(f1, f2) ==
    LET al == AlignFeatures(f1, f2)
        prs == AlignedPairs(f1, f2, al.path)
    IN [path |-> al.path, ran |-> al.ran,
        out |-> IF al.kind # "value" THEN Raise(al.kind)
                ELSE OneMinus(Div(CountOf(prs, FfeError), Len(prs)))]

ProInit ==
    /\ feat1 \in SeqsBetween(FeatFrames, 0, MaxFeat) \cup LongFeats
    /\ feat2 \in SeqsBetween(FeatFrames, 0, MaxFeat) \cup LongFeats
    /\ proOp = "none"
    /\ proPath = <<>>
    /\ proOut = Rat(0, 1)
    /\ proRan = FALSE
    /\ proPc = "ready"

ProReturn(op, r) ==
    /\ proOp' = op
    /\ proPath' = r.path
    /\ proOut' = r.out
    /\ proRan' = r.ran
    /\ proPc' = "done"
    /\ UNCHANGED <<feat1, feat2>>
    /\ Others({"pro"})

CallCalculateVde ==
    /\ proPc = "ready"
    /\ ProReturn("calculate_vde", CalculateVde(feat1, feat2))

CallCalculateGpe ==
    /\ proPc = "ready"
    /\ ProReturn("calculate_gpe", CalculateGpe(feat1, feat2))

CallCalculateFfe ==
    /\ proPc = "ready"
    /\ ProReturn("calculate_ffe", CalculateFfe(feat1, feat2))

----------------------------------------------------------------------------
(* RatingPredictor.predict (predictor.py) and scoring_service.predict_score: *)
(* the 1-5 rating predicted from the similarity scores.  Ratings are        *)
(* counted in sixteenths, which floats hold exactly; what the regression    *)
(* model returns for an input is not modelled, a call draws it.             *)

\* ratings are num / ScoreUnit
ScoreUnit == 16

\* bound: how far, in sixteenths, a raw model output may lie outside [1, 5]
RawSpan == 24

FloatNegInf == [kind |-> "-inf", num |-> 0, den |-> 1]

\* x < y on floats: every comparison with nan is false
FloatLt(x, y) ==
    IF x.kind = "nan" \/ y.kind = "nan" THEN FALSE
    ELSE IF x.kind = "-inf" THEN y.kind # "-inf"
    ELSE IF x.kind = "inf" THEN FALSE
    ELSE IF y.kind = "inf" THEN TRUE
    ELSE IF y.kind = "-inf" THEN FALSE
    ELSE x.num * y.den < y.num * x.den

\* Python's min(a, b): b only when b < a
PyMin(a, b) == IF FloatLt(b, a) THEN b ELSE a

\* Python's max(a, b): b only when b > a
PyMax(a, b) == IF FloatLt(a, b) THEN b ELSE a

\* what the regression model may return
RawOutputs ==
    {Rat(k, ScoreUnit) : k \in (ScoreUnit - RawSpan)..((5 * ScoreUnit) + RawSpan)}
        \cup {FloatNaN, FloatInf, FloatNegInf}

feature_order == <<"score_PER", "score_PPG", "score_Energy">>

FeatureValues == {Rat(0, 1), Rat(1, 1), FloatNaN}

\* a dict that holds some of the keys
Mappings(keys, values) == UNION {[K -> values] : K \in SUBSET keys}

\* first key of the order that the dict lacks, 0 when it has them all
FirstMissing(order, d) ==
    LET miss == {i \in 1..Len(order) : order[i] \notin DOMAIN d}
    IN IF miss = {} THEN 0 ELSE CHOOSE i \in miss : \A k \in miss : i <= k

HasNaN(order, d) == \E i \in 1..Len(order) : d[order[i]].kind = "nan"

\* what the network returns: nan inputs pass the scaler and the
\* linear layers as nan
ModelOutputs(order, d) ==
    IF HasNaN(order, d) THEN {FloatNaN} ELSE RawOutputs

ClampRatingNoCeiling(raw) == PyMax(Rat(ScoreUnit, ScoreUnit), raw)

\* prediction = max(1.0, min(5.0, prediction))
ClampRating(raw) == PyMax(Rat(ScoreUnit, ScoreUnit), PyMin(Rat(5 * ScoreUnit, ScoreUnit), raw))

FeatureListDefaultZero(d) == [kind |-> "value", num |-> 0, den |-> 1]

\* features = [features[key] for key in feature_order]
FeatureList(d) ==
    IF FirstMissing(feature_order, d) # 0 THEN Raise("KeyError")
    ELSE [kind |-> "value", num |-> 0, den |-> 1]

\* RatingPredictor.predict on a dict, the network returning raw
Predict(d, raw) ==
    IF FeatureList(d).kind # "value" THEN FeatureList(d)
    ELSE ClampRating(raw)

RatInit ==
    /\ model = "tiny_model"
    /\ scaler = "scaler"
    /\ features \in Mappings(Range(feature_order), FeatureValues)
    /\ prediction = Rat(0, 1)
    /\ ratOut = Rat(0, 1)
    /\ ratPc = "ready"

CallPredict ==
    /\ ratPc = "ready"
    /\ \E raw \in (IF FirstMissing(feature_order, features) # 0
                   THEN {Rat(0, 1)}
                   ELSE ModelOutputs(feature_order, features)) :
          /\ prediction' = raw
          /\ ratOut' = Predict(features, raw)
    /\ ratPc' = "done"
    /\ UNCHANGED <<model, scaler, features>>
    /\ Others({"rat"})

\* _METRIC_INFO of load_model: the metrics and which of them are reversed
MetricInfo ==
    <<[key |-> "score_PER", reverse |-> TRUE],
      [key |-> "score_PPG", reverse |-> FALSE],
      [key |-> "score_WER", reverse |-> TRUE],
      [key |-> "score_GOP", reverse |-> FALSE],
      [key |-> "score_GPE_offset", reverse |-> FALSE],
      [key |-> "score_FFE", reverse |-> FALSE],
      [key |-> "score_Energy", reverse |-> FALSE],
      [key |-> "score_VDE", reverse |-> FALSE]>>

\* list(_METRIC_INFO.keys())
ScoreColumns == [i \in 1..Len(MetricInfo) |-> MetricInfo[i].key]

PyNone == [kind |-> "None", num |-> 0, den |-> 1]

\* the metrics dicts of the calls: any subset of the columns, each zero or
\* nan; every column at one; every column at zero but one that is None
MetricsDicts ==
    Mappings(Range(ScoreColumns), {Rat(0, 1), FloatNaN})
        \cup {[k \in Range(ScoreColumns) |-> Rat(1, 1)]}
        \cup {[k \in Range(ScoreColumns) |-> IF k = c THEN PyNone ELSE Rat(0, 1)] :
                c \in Range(ScoreColumns)}

\* [col for col in _SCORE_COLUMNS if col not in metrics]
MissingMetrics(cols, d) == SelectSeq(cols, LAMBDA c : c \notin DOMAIN d)

\* score is None or np.isnan(score), for some column
InvalidMetric(cols, d) ==
    \E i \in 1..Len(cols) : d[cols[i]].kind \in {"None", "nan"}

\* np.clip(x, 1.0, 5.0): nan stays nan
NpClip(x) ==
    IF x.kind = "nan" THEN x
    ELSE PyMax(Rat(ScoreUnit, ScoreUnit), PyMin(Rat(5 * ScoreUnit, ScoreUnit), x))

NpRoundDown(num, den) == num \div den

NpRoundCeil(num, den) == IF num % den = 0 THEN num \div den ELSE (num \div den) + 1

\* np.round of num / den: to the nearest integer, a tie to the even one
NpRound(num, den) ==
    LET q == num \div den
        r == num % den
    IN IF 2 * r < den THEN q
       ELSE IF 2 * r > den THEN q + 1
       ELSE IF q % 2 = 0 THEN q ELSE q + 1

\* the confidence grade of |predicted_score - score_int|, in sixteenths
Confidence(dist) ==
    IF 10 * dist < 3 * ScoreUnit THEN "high"
    ELSE IF 10 * dist < 6 * ScoreUnit THEN "medium"
    ELSE "low"

SvcRaise(name, missing) ==
    [kind |-> name, missing |-> missing, score |-> 0, score_int |-> 0,
     score_half |-> 0, confidence |-> "none"]

\* the dict predict_score returns; score in sixteenths, score_half in halves
SvcResult(c) ==
    [kind |-> "value", missing |-> <<>>, score |-> c,
     score_int |-> NpRound(c, ScoreUnit),
     score_half |-> NpRound(2 * c, ScoreUnit),
     confidence |-> Confidence(Abs(c - (ScoreUnit * NpRound(c, ScoreUnit))))]

\* predict_score(metrics), the forest returning raw
PredictScore(loaded, cols, d, raw) ==
    IF loaded = "none" THEN SvcRaise("RuntimeError", <<>>)
    ELSE IF MissingMetrics(cols, d) # <<>> THEN SvcRaise("ValueError", MissingMetrics(cols, d))
    ELSE IF InvalidMetric(cols, d) THEN SvcRaise("ValueError", <<>>)
    ELSE IF NpClip(raw).kind = "nan" THEN SvcRaise("ValueError", <<>>)
    ELSE SvcResult(NpClip(raw).num)

\* the models_dir arguments: None, which stands for the default directory,
\* and another directory
ModelsDirs == {"None", "other_models"}

\* joblib.load(model_path): the model that the file of the directory holds
ModelIn(dir) == IF dir = "None" THEN "rf_score_model" ELSE "rf_score_model_other"

LoadModelAlwaysLoads(loaded, info, cols, dir, exists) ==
    IF ~exists[dir]
    THEN [model |-> loaded, info |-> info, cols |-> cols, out |-> "FileNotFoundError"]
    ELSE [model |-> ModelIn(dir), info |-> MetricInfo, cols |-> ScoreColumns,
          out |-> "returned"]

\* load_model(models_dir): returns at once when a model is loaded, raises
\* FileNotFoundError when the file is missing, and else sets the globals
LoadModelOutcome(loaded, info, cols, dir, exists) ==
    IF loaded # "none"
    THEN [model |-> loaded, info |-> info, cols |-> cols, out |-> "returned"]
    ELSE IF ~exists[dir]
    THEN [model |-> loaded, info |-> info, cols |-> cols, out |-> "FileNotFoundError"]
    ELSE [model |-> ModelIn(dir), info |-> MetricInfo, cols |-> ScoreColumns,
          out |-> "returned"]

\* get_feature_importance(): one importance per score column of the forest
FeatureImportance(loaded, cols) ==
    IF loaded = "none" THEN [kind |-> "RuntimeError", cols |-> <<>>]
    ELSE [kind |-> "value", cols |-> cols]

SvcInit ==
    /\ _model = "none"
    /\ _METRIC_INFO = <<>>
    /\ _SCORE_COLUMNS = <<>>
    /\ model_path_exists \in [ModelsDirs -> BOOLEAN]
    /\ metrics \in MetricsDicts
    /\ svcOp = "none"
    /\ models_dir = "None"
    /\ loadOut = "none"
    /\ featOut = [kind |-> "none", cols |-> <<>>]
    /\ predicted_score = Rat(0, 1)
    /\ svcOut = SvcRaise("none", <<>>)
    /\ svcPc = "ready"

LoadModel ==
    /\ svcPc \in {"ready", "done"}
    /\ \E dir \in ModelsDirs :
          LET o == LoadModelOutcome(_model, _METRIC_INFO, _SCORE_COLUMNS, dir,
                                    model_path_exists)
          IN /\ models_dir' = dir
             /\ _model' = o.model
             /\ _METRIC_INFO' = o.info
             /\ _SCORE_COLUMNS' = o.cols
             /\ loadOut' = o.out
    /\ svcOp' = "load_model"
    /\ UNCHANGED <<model_path_exists, metrics, featOut, predicted_score, svcOut, svcPc>>
    /\ Others({"svc"})

GetFeatureImportance ==
    /\ svcPc \in {"ready", "done"}
    /\ featOut' = FeatureImportance(_model, _SCORE_COLUMNS)
    /\ svcOp' = "get_feature_importance"
    /\ UNCHANGED <<_model, _METRIC_INFO, _SCORE_COLUMNS, model_path_exists, metrics,
                   models_dir, loadOut, predicted_score, svcOut, svcPc>>
    /\ Others({"svc"})

\* whether predict_score gets as far as _model.predict
ReachesModel(loaded, cols, d) ==
    /\ loaded # "none"
    /\ MissingMetrics(cols, d) = <<>>
    /\ ~InvalidMetric(cols, d)

CallPredictScore ==
    /\ svcPc = "ready"
    /\ \E raw \in (IF ReachesModel(_model, _SCORE_COLUMNS, metrics)
                   THEN RawOutputs ELSE {Rat(0, 1)}) :
          /\ predicted_score' = raw
          /\ svcOut' = PredictScore(_model, _SCORE_COLUMNS, metrics, raw)
    /\ svcPc' = "done"
    /\ svcOp' = "predict_score"
    /\ UNCHANGED <<_model, _METRIC_INFO, _SCORE_COLUMNS, model_path_exists, metrics,
                   models_dir, loadOut, featOut>>
    /\ Others({"svc"})

----------------------------------------------------------------------------
(* _get_ppg_extractor (cal_wer_gop.py): the per-device extractor cache.     *)
(* The function takes no lock, so callers on different threads interleave   *)
(* between the lookup, the construction and the store.  An extractor is     *)
(* identified by its position in the list of extractors built so far.       *)

\* bound: concurrent callers
MaxCallers == 3

Callers == 1..MaxCallers

\* str(device)
Devices == {"cpu", "cuda"}

\* _PPG_EXTRACTORS.get(key): None when the key is absent
CacheGet(cache, key) == IF key \in DOMAIN cache THEN cache[key] ELSE None

\* _PPG_EXTRACTORS[key] = extractor
CacheSet(cache, key, e) ==
    [k \in (DOMAIN cache) \cup {key} |-> IF k = key THEN e ELSE cache[k]]

ExtInit ==
    /\ _PPG_EXTRACTORS = <<>>
    /\ instances = <<>>
    /\ device \in [Callers -> Devices]
    /\ extractor = [c \in Callers |-> None]
    /\ extPc = [c \in Callers |-> "get"]

\* extractor = _PPG_EXTRACTORS.get(key); if extractor is None: ...
CacheLookupStep(c) ==
    /\ extPc[c] = "get"
    /\ extractor' = [extractor EXCEPT ![c] = CacheGet(_PPG_EXTRACTORS, device[c])]
    /\ extPc' = [extPc EXCEPT ![c] =
                    IF CacheGet(_PPG_EXTRACTORS, device[c]) = None
                    THEN "construct" ELSE "returned"]
    /\ UNCHANGED <<_PPG_EXTRACTORS, instances, device>>
    /\ Others({"ext"})

\* extractor = _PPGExtractor(device)
ConstructStep(c) ==
    /\ extPc[c] = "construct"
    /\ instances' = Append(instances, device[c])
    /\ extractor' = [extractor EXCEPT ![c] = Len(instances) + 1]
    /\ extPc' = [extPc EXCEPT ![c] = "store"]
    /\ UNCHANGED <<_PPG_EXTRACTORS, device>>
    /\ Others({"ext"})

\* _PPG_EXTRACTORS[key] = extractor; return extractor
StoreStep(c) ==
    /\ extPc[c] = "store"
    /\ _PPG_EXTRACTORS' = CacheSet(_PPG_EXTRACTORS, device[c], extractor[c])
    /\ extPc' = [extPc EXCEPT ![c] = "returned"]
    /\ UNCHANGED <<instances, device, extractor>>
    /\ Others({"ext"})

CacheLookup == \E c \in DOMAIN extPc : CacheLookupStep(c)

Construct == \E c \in DOMAIN extPc : ConstructStep(c)

Store == \E c \in DOMAIN extPc : StoreStep(c)

----------------------------------------------------------------------------
(* AudioScorer.__init__ / AudioScorer.score (audio_scorer.py) and the       *)
(* POST /score handler score_audio (routes/audio.py): which calls load      *)
(* models.  A loaded model is identified by the number of its load.         *)

\* bound: score calls on the kept scorer, and requests served
MaxCalls == 4

\* one more load of each sub-model
LoadAll(l) ==
    [ctc |-> l.ctc + 1,
     speech_metrics |-> l.speech_metrics + 1,
     rating_predictor |-> l.rating_predictor + 1]

\* AudioScorer(): PhoneCTC(), SpeechMetrics() and RatingPredictor() are
\* constructed, each loading its model; the fields hold the new objects
NewScorer(l) ==
    [ctc |-> l.ctc + 1,
     speech_metrics |-> l.speech_metrics + 1,
     rating_predictor |-> l.rating_predictor + 1]

\* the (user_id, course_id, sentence_id, slot_index) keys of the table
StoreKeys == {"k1", "k2"}

\* the ratings scorer.score returns here: RatingPredictor.predict's clamped
\* output, in sixteenths
ScoreRatings == {ClampRating(Rat(k, ScoreUnit)) : k \in {8, 40, 50}}

\* the requests: whether both files are there; the key ("none": not all
\* four fields given, "bad": sentence_id or slot_index is not an integer);
\* whether the database answers the query and the upsert; whether ffmpeg
\* and the scorer succeed; the rating the scorer computes.  A field that
\* the handler cannot reach for the other fields has one value only.
Requests ==
    {r \in [files : BOOLEAN,
            key : StoreKeys \cup {"none", "bad"},
            lookup : {"ok", "fails"},
            save : {"ok", "fails"},
            scoring : {"ok", "ffmpeg_fails", "score_fails"},
            rating : ScoreRatings] :
        /\ ~r.files => r.key = "none" /\ r.scoring = "ok"
        /\ r.key \notin StoreKeys => r.lookup = "ok" /\ r.save = "ok"
        /\ r.scoring # "ok" => r.save = "ok"
        /\ ~r.files \/ r.scoring # "ok" => r.rating = Rat(ScoreUnit, ScoreUnit)}

\* round(score, 2)
Round2(score) == Rat(NpRound(100 * score.num, score.den), 100)

GetAiScoreNeverFinds(store, key, lookup) == PyNone

\* SupabaseClient.get_ai_score: float(result.data[0]['score']) of the row;
\* None when there is no row or the query raises
GetAiScore(store, key, lookup) ==
    IF lookup = "fails" THEN PyNone ELSE store[key]

\* SupabaseClient.save_ai_score: upsert of round(score, 2) under the key;
\* success False when the upsert raises
SaveAiScore(store, key, score, save) ==
    IF save = "fails" THEN [success |-> FALSE, store |-> store]
    ELSE [success |-> TRUE, store |-> [store EXCEPT ![key] = Round2(score)]]

\* the lookup of score_audio: made with all four fields given; int() of a
\* non-integer field raises ValueError, which is caught
CachedScore(req, store) ==
    IF req.key \in StoreKeys THEN GetAiScore(store, req.key, req.lookup)
    ELSE PyNone

\* the save of score_audio, with the same condition and the same int()
StoreAfterSave(req, store, rating) ==
    IF req.key \in StoreKeys
    THEN SaveAiScore(store, req.key, rating, req.save).store
    ELSE store

Reply(code, success, rating, cached) ==
    [code |-> code, success |-> success, rating |-> rating, cached |-> cached]

ScoredReplyFailsOnSaveError(req, rating) ==
    IF req.key \in StoreKeys /\ req.save = "fails"
    THEN Reply(500, FALSE, PyNone, FALSE)
    ELSE Reply(200, TRUE, rating, FALSE)

\* the reply after the save: a save that failed or raised is only logged
ScoredReply(req, rating) == Reply(200, TRUE, rating, FALSE)

\* score_audio(): the reply, the table afterwards, the temporary files
\* created, the scorings run and the AudioScorer objects built
ScoreAudioOutcome(req, store) ==
    IF ~req.files
    THEN [response |-> "missing_files", reply |-> Reply(400, FALSE, PyNone, FALSE),
          store |-> store, temp |-> 0, runs |-> 0, built |-> 0]
    ELSE LET cached_score == CachedScore(req, store)
         IN IF cached_score # PyNone
            THEN [response |-> "cached", reply |-> Reply(200, TRUE, cached_score, TRUE),
                  store |-> store, temp |-> 0, runs |-> 0, built |-> 0]
            ELSE IF req.scoring = "ffmpeg_fails"
            THEN [response |-> "error", reply |-> Reply(500, FALSE, PyNone, FALSE),
                  store |-> store, temp |-> 3, runs |-> 0, built |-> 0]
            ELSE IF req.scoring = "score_fails"
            THEN [response |-> "error", reply |-> Reply(500, FALSE, PyNone, FALSE),
                  store |-> store, temp |-> 3, runs |-> 1, built |-> 1]
            ELSE [response |-> "scored", reply |-> ScoredReply(req, req.rating),
                  store |-> StoreAfterSave(req, store, req.rating),
                  temp |-> 3, runs |-> 1, built |-> 1]

\* a process that has constructed one AudioScorer and keeps it; the table
\* is empty and no request has been served
SrvInit ==
    /\ loads = LoadAll([ctc |-> 0, speech_metrics |-> 0, rating_predictor |-> 0])
    /\ scorer = NewScorer([ctc |-> 0, speech_metrics |-> 0, rating_predictor |-> 0])
    /\ calls = 0
    /\ requests = 0
    /\ response = "none"
    /\ ai_scores = [k \in StoreKeys |-> PyNone]
    /\ request = [files |-> FALSE, key |-> "none", lookup |-> "ok", save |-> "ok",
                  scoring |-> "ok", rating |-> Rat(ScoreUnit, ScoreUnit)]
    /\ reply = Reply(0, FALSE, PyNone, FALSE)
    /\ temp_created = 0
    /\ scorer_runs = 0
    /\ returned = [k \in StoreKeys |-> PyNone]

\* scorer.score(reference_audio, test_audio) on the kept scorer: the
\* sub-models held in the fields are used, none is constructed
Score ==
    /\ response # "idle"
    /\ calls < MaxCalls
    /\ calls' = calls + 1
    /\ UNCHANGED <<scorer, loads, requests, response,
                   ai_scores, request, reply, temp_created, scorer_runs, returned>>
    /\ Others({"srv"})

\* POST /score: 400 without both files; the stored score when the lookup
\* returns one; otherwise the temporary files, ffmpeg, scorer =
\* AudioScorer(), rating = scorer.score(...), the save, and the rating
ScoreAudio ==
    /\ response # "idle"
    /\ requests < MaxCalls
    /\ requests' = requests + 1
    /\ \E req \in Requests :
          LET o == ScoreAudioOutcome(req, ai_scores)
          IN /\ request' = req
             /\ response' = o.response
             /\ reply' = o.reply
             /\ ai_scores' = o.store
             /\ temp_created' = o.temp
             /\ scorer_runs' = o.runs
             /\ loads' = IF o.built = 1 THEN LoadAll(loads) ELSE loads
             /\ returned' = IF o.response = "scored" /\ req.key \in StoreKeys
                               /\ req.save = "ok"
                            THEN [returned EXCEPT ![req.key] = req.rating]
                            ELSE returned
    /\ UNCHANGED <<scorer, calls>>
    /\ Others({"srv"})

----------------------------------------------------------------------------
(* get_wer_score (cal_wer_gop.py): the word error rate of the test          *)
(* recording against the ground truth, which is either transcribed from     *)
(* the ground-truth audio or read from a transcript file.  A text is the    *)
(* sequence of its whitespace-separated words.                              *)

\* bound: longest text, in words
MaxWords == 2

\* words as Whisper or a transcript file may spell them
RawWords == {"a", "A", "b", "."}

\* lower(), punctuation removed
NormalizeWord(w) == IF w = "A" THEN "a" ELSE IF w = "." THEN "" ELSE w

\* _normalize_text: lower-case, strip punctuation, split and re-join
NormalizeText(text) ==
    SelectSeq([k \in DOMAIN text |-> NormalizeWord(text[k])], LAMBDA w : w # "")

\* float(f"{wer:.4f}")
RoundTo4(r) ==
    IF r.kind # "value" THEN r
    ELSE Rat(((2 * r.num * 10000) + r.den) \div (2 * r.den), 10000)

\* cal_wer(reference, hypothesis)
CalWer(reference, hypothesis) ==
    IF reference = <<>> THEN Rat(0, 1)
    ELSE Div(EditDistance(reference, hypothesis), Len(reference))

\* get_wer_score(test_audio_path, ground_truth_audio_path, gt_transcript=...,
\* ground_truth_transcript_path=...): the result, the Whisper loads and the
\* recordings transcribed
GetWerScore(test_ok, gt_ok, use_transcript, transcript, test_text, gt_raw) ==
    IF ~test_ok
    THEN [out |-> Raise("ValueError"), loads |-> 0, transcribed |-> <<>>]
    ELSE IF ~use_transcript /\ ~gt_ok
    THEN [out |-> Raise("ValueError"), loads |-> 0, transcribed |-> <<>>]
    ELSE IF use_transcript /\ transcript # "file"
    THEN [out |-> Raise("ValueError"), loads |-> 1, transcribed |-> <<"test">>]
    ELSE [out |-> RoundTo4(CalWer(NormalizeText(gt_raw), NormalizeText(test_text))),
          loads |-> 1,
          transcribed |-> IF use_transcript THEN <<"test">> ELSE <<"test", "gt">>]

\* the arguments of a call: which files exist, and what Whisper hears in
\* the test audio and the ground truth says
WerInit ==
    /\ test_is_file \in BOOLEAN
    /\ gt_is_file \in BOOLEAN
    /\ gt_transcript \in BOOLEAN
    /\ ground_truth_transcript_path \in {"None", "missing", "file"}
    /\ test_result \in SeqsBetween(RawWords, 0, MaxWords)
    /\ gt_text_raw \in SeqsBetween(RawWords, 0, MaxWords)
    /\ whisper_loads = 0
    /\ transcribed = <<>>
    /\ werOut = Rat(0, 1)
    /\ werPc = "ready"

CallGetWerScore ==
    /\ werPc = "ready"
    /\ LET r == GetWerScore(test_is_file, gt_is_file, gt_transcript,
                            ground_truth_transcript_path, test_result, gt_text_raw)
       IN /\ werOut' = r.out
          /\ whisper_loads' = whisper_loads + r.loads
          /\ transcribed' = transcribed \o r.transcribed
    /\ werPc' = "done"
    /\ UNCHANGED <<test_is_file, gt_is_file, gt_transcript,
                   ground_truth_transcript_path, test_result, gt_text_raw>>
    /\ Others({"wer"})

\* -- specifications --
----------------------------------------------------------------------------
(* Specifications: one per component *)

InitCTC == CtcInit /\ Idle({"ctc"})

NextCTC == PosteriorsAndSpans

SpecCTC == InitCTC /\ [][NextCTC]_vars

InitPER == PerInit /\ Idle({"per"})

NextPER == CallCalcPer \/ CallCalculatePerSimilarity \/ CallScorerPerSimilarity

SpecPER == InitPER /\ [][NextPER]_vars

InitDTW ==
    \/ DtwInit /\ Idle({"dtw"})
    \/ AlnInit /\ Idle({"aln"})

NextDTW == CallDtwAlignment \/ CallAlignPpgs

SpecDTW == InitDTW /\ [][NextDTW]_vars

InitBand == DtwBandInit /\ Idle({"dtw"})

NextBand == CallDtwAlignment

SpecBand == InitBand /\ [][NextBand]_vars

InitPPG == PpgInit /\ Idle({"ppg"})

NextPPG == CallPpgJsdSimilarity \/ CallCalculatePpgSimilarity \/ CallScorerPpgSimilarity

SpecPPG == InitPPG /\ [][NextPPG]_vars

InitPpgBand == PpgBandInit /\ Idle({"ppg"})

NextPpgBand == CallPpgJsdSimilarity

SpecPpgBand == InitPpgBand /\ [][NextPpgBand]_vars

InitDegenerate ==
    \/ GopListsInit /\ Idle({"gop"})
    \/ PerInit /\ Idle({"per"})
    \/ ProInit /\ Idle({"pro"})

NextDegenerate ==
    \/ CallDtwPhone
    \/ CallCalculatePerSimilarity
    \/ CallCalculateVde
    \/ CallCalculateGpe
    \/ CallCalculateFfe

SpecDegenerate == InitDegenerate /\ [][NextDegenerate]_vars

InitShort ==
    \/ PpgInit /\ Idle({"ppg"})
    \/ GopAudioInit /\ Idle({"gop"})

NextShort ==
    \/ CallCalculatePpgSimilarity
    \/ CallScorerPpgSimilarity
    \/ CallCalculateGopSimilarity

SpecShort == InitShort /\ [][NextShort]_vars

InitRating ==
    \/ RatInit /\ Idle({"rat"})
    \/ SvcInit /\ Idle({"svc"})

NextRating == CallPredict \/ LoadModel \/ CallPredictScore

SpecRating == InitRating /\ [][NextRating]_vars

InitCache == ExtInit /\ Idle({"ext"})

NextCache == CacheLookup \/ Construct \/ Store

SpecCache == InitCache /\ [][NextCache]_vars

InitServing == SrvInit /\ Idle({"srv"})

NextServing == Score \/ ScoreAudio

SpecServing == InitServing /\ [][NextServing]_vars

InitGopDtw == GopListsInit /\ Idle({"gop"})

NextGopDtw == CallDtwPhone

SpecGopDtw == InitGopDtw /\ [][NextGopDtw]_vars

InitProsody == ProInit /\ Idle({"pro"})

NextProsody == CallCalculateVde \/ CallCalculateGpe \/ CallCalculateFfe

SpecProsody == InitProsody /\ [][NextProsody]_vars

InitIdentity ==
    \/ PerInit /\ Idle({"per"})
    \/ GopListsInit /\ Idle({"gop"})

NextIdentity ==
    \/ CallCalcPer
    \/ CallCalculatePerSimilarity
    \/ CallScorerPerSimilarity
    \/ CallDtwPhone

SpecIdentity == InitIdentity /\ [][NextIdentity]_vars

InitSelf ==
    \/ DtwSelfInit /\ Idle({"dtw"})
    \/ ProInit /\ Idle({"pro"})

NextSelf ==
    \/ CallDtwAlignment
    \/ CallCalculateVde
    \/ CallCalculateGpe
    \/ CallCalculateFfe

SpecSelf == InitSelf /\ [][NextSelf]_vars

InitGopAudio == GopAudioInit /\ Idle({"gop"})

NextGopAudio == CallCalculateGopSimilarity

SpecGopAudio == InitGopAudio /\ [][NextGopAudio]_vars

InitWer == WerInit /\ Idle({"wer"})

NextWer == CallGetWerScore

SpecWer == InitWer /\ [][NextWer]_vars

\* the scoring service called with dicts that hold every metric
InitService ==
    /\ SvcInit
    /\ DOMAIN metrics = Range(ScoreColumns)
    /\ Idle({"svc"})

NextService == LoadModel \/ GetFeatureImportance \/ CallPredictScore

SpecService == InitService /\ [][NextService]_vars

\* -- claims --
----------------------------------------------------------------------------
(* Claims about the span decoder *)

NonBlank(frames, bl) == {t \in 0..(Len(frames) - 1) : frames[t + 1] # bl}

\* the maximal runs of equal non-blank frames, blanks ignored
RunSpans(frames, bl) ==
    LET nb == NonBlank(frames, bl)
        SameRun(s, e) == \A t \in nb : (s <= t /\ t <= e) => frames[t + 1] = frames[s + 1]
        PrevDiffers(s) ==
            \A t \in nb : (t < s /\ \A u \in nb : ~(t < u /\ u < s))
                          => frames[t + 1] # frames[s + 1]
        NextDiffers(e) ==
            \A t \in nb : (t > e /\ \A u \in nb : ~(e < u /\ u < t))
                          => frames[t + 1] # frames[e + 1]
    IN {<<frames[s + 1], s, e>> : <<s, e>> \in
          {p \in nb \X nb : /\ p[1] <= p[2]
                            /\ SameRun(p[1], p[2])
                            /\ PrevDiffers(p[1])
                            /\ NextDiffers(p[2])}}

\* C1: blank frames are transparent: the spans are exactly the maximal runs of
\* equal non-blank frames (blanks ignored), one span per run, each labelled by
\* the run's token and bounded by the run's first and last frame.
C1_BlankTransparent ==
    ctcPc = "done" =>
        /\ Range(spans) = RunSpans(ids, blank)
        /\ Len(spans) = Cardinality(RunSpans(ids, blank))

\* C2: every span has 0 <= start_frame <= end_frame < T and consecutive spans
\* are strictly time-ordered (earlier end_frame < later start_frame).
C2_SpansOrdered ==
    ctcPc = "done" =>
        /\ \A k \in DOMAIN spans :
              /\ 0 <= spans[k][2]
              /\ spans[k][2] <= spans[k][3]
              /\ spans[k][3] < Len(ids)
        /\ \A k \in 1..(Len(spans) - 1) : spans[k][3] < spans[k + 1][2]

\* C2 witness: a decoded sequence with blank frames inside and between runs
\* that produced at least two spans, one of them longer than one frame
C2_Witness ==
    /\ ctcPc = "done"
    /\ Len(spans) >= 2
    /\ \E k \in DOMAIN spans : spans[k][2] < spans[k][3]
    /\ \E t \in 1..Len(ids) : ids[t] = blank /\ t > 1 /\ t < Len(ids)

----------------------------------------------------------------------------
(* Claims about the phoneme error rate *)

SetMin(S) == CHOOSE x \in S : \A y \in S : x <= y

\* the elements of a finite set of integers in ascending order
Ascending(S) ==
    [k \in 1..Cardinality(S) |-> CHOOSE x \in S : Cardinality({y \in S : y < x}) = k - 1]

\* cost of the edit script that keeps positions I of a matched in order with
\* positions J of b: unmatched a-symbols are deleted, unmatched b-symbols are
\* inserted, matched pairs that differ are substituted
ScriptCost(a, b, I, J) ==
    LET oi == Ascending(I)
        oj == Ascending(J)
    IN (Len(a) - Cardinality(I)) + (Len(b) - Cardinality(J))
       + Cardinality({k \in 1..Cardinality(I) : a[oi[k]] # b[oj[k]]})

\* the minimum number of unit-cost substitutions, insertions and deletions
\* turning a into b
MinEdits(a, b) ==
    SetMin({ScriptCost(a, b, P[1], P[2]) :
              P \in {Q \in (SUBSET (1..Len(a))) \X (SUBSET (1..Len(b))) :
                       Cardinality(Q[1]) = Cardinality(Q[2])}})

\* h is r with exactly one symbol replaced by a different one
SingleSubstitution(r, h) ==
    /\ Len(r) = Len(h)
    /\ Cardinality({k \in 1..Len(r) : r[k] # h[k]}) = 1

\* C3: for a non-empty reference _calc_per returns D / len(ref), D the minimum
\* number of unit-cost edits turning ref into hyp; a single substitution in a
\* length-n reference gives D = 1 and PER = 1/n.
C3_PerIsEditDistance ==
    (perPc = "done" /\ perOp = "_calc_per" /\ ref # <<>>) =>
        /\ RatEq(perOut, MinEdits(ref, hyp), Len(ref))
        /\ SingleSubstitution(ref, hyp) =>
              /\ perOut.num = 1
              /\ RatEq(perOut, 1, Len(ref))

\* C3 witness: _calc_per ran on a single-substitution hypothesis of a
\* reference of length >= 2
C3_Witness ==
    /\ perPc = "done"
    /\ perOp = "_calc_per"
    /\ Len(ref) >= 2
    /\ SingleSubstitution(ref, hyp)
    /\ RatEq(perOut, 1, Len(ref))

PerSimilarityOps == {"calculate_per_similarity", "AudioScorer._calculate_per_similarity"}

----------------------------------------------------------------------------
(* Claims about the DTW alignment paths *)

\* p runs from (0,0) to (n-1,m-1), every step raising i, j or both by exactly
\* one, so it visits every index of both sequences and has >= max(n,m) pairs
CoveringUnitStepPath(p, n, m) ==
    /\ Len(p) >= 1
    /\ p[1] = <<0, 0>>
    /\ p[Len(p)] = <<n - 1, m - 1>>
    /\ \A k \in 1..(Len(p) - 1) :
          LET di == p[k + 1][1] - p[k][1]
              dj == p[k + 1][2] - p[k][2]
          IN di \in {0, 1} /\ dj \in {0, 1} /\ di + dj >= 1
    /\ {p[k][1] : k \in DOMAIN p} = 0..(n - 1)
    /\ {p[k][2] : k \in DOMAIN p} = 0..(m - 1)
    /\ Len(p) >= Max(n, m)

\* C4: for n, m >= 1 the path of dtw_alignment and the index path of
\* _align_ppgs start at (0,0), end at (n-1,m-1) and move by unit steps, so they
\* cover both sequences and have at least max(n,m) pairs.
C4_PathCoversBoth ==
    /\ (dtwPc = "done" /\ Len(seq1) >= 1 /\ Len(seq2) >= 1) =>
          CoveringUnitStepPath(path, Len(seq1), Len(seq2))
    /\ (alnPc = "done" /\ Len(ppg_test) >= 1 /\ Len(ppg_ref) >= 1) =>
          CoveringUnitStepPath(index_path, Len(ppg_test), Len(ppg_ref))

\* C4 witness: dtw_alignment aligned sequences of different lengths >= 2 and
\* the path repeats an index of the shorter one
C4_Witness ==
    /\ dtwPc = "done"
    /\ Len(seq1) >= 2
    /\ Len(seq2) > Len(seq1)
    /\ Len(path) >= Len(seq2)
    /\ \E k \in 1..(Len(path) - 1) : path[k + 1][1] = path[k][1]
    /\ path[Len(path)] = <<Len(seq1) - 1, Len(seq2) - 1>>

\* the band the claims name: max(|n-m|, max(n,m)//10)
ClaimedBand(n, m) == Max(Abs(n - m), Max(n, m) \div 10)

\* every unit-step monotone path from (i,j) to (n-1,m-1) with |i-j| <= band
RECURSIVE BandPaths(_, _, _, _, _)
BandPaths(i, j, n, m, band) ==
    IF Abs(i - j) > band \/ i > n - 1 \/ j > m - 1 THEN {}
    ELSE IF i = n - 1 /\ j = m - 1 THEN {<< <<i, j>> >>}
    ELSE {<< <<i, j>> >> \o q :
             q \in BandPaths(i + 1, j, n, m, band)
                   \cup BandPaths(i, j + 1, n, m, band)
                   \cup BandPaths(i + 1, j + 1, n, m, band)}

RECURSIVE SumCost(_, _, _)
SumCost(cost, p, k) ==
    IF k > Len(p) THEN 0
    ELSE cost[<<p[k][1] + 1, p[k][2] + 1>>] + SumCost(cost, p, k + 1)

\* sum of the frame costs along a path of 0-based index pairs
PathCost(s1, s2, p) == SumCost(EuclideanCost(s1, s2), p, 1)

\* C5: the path of dtw_alignment is a minimum-cost alignment: its cost equals
\* the accumulated cost at (n,m) and no unit-step monotone path inside the
\* band from (0,0) to (n-1,m-1) is cheaper.
C5_PathIsMinimumCost ==
    (dtwPc = "done" /\ Len(seq1) >= 1 /\ Len(seq2) >= 1) =>
        LET n == Len(seq1)
            m == Len(seq2)
            all == BandPaths(0, 0, n, m, ClaimedBand(n, m))
        IN /\ path \in all
           /\ PathCost(seq1, seq2, path) = dtw[<<n, m>>]
           /\ \A q \in all : PathCost(seq1, seq2, path) <= PathCost(seq1, seq2, q)

\* C5 witness: an alignment of positive cost that beats some other in-band path
C5_Witness ==
    /\ dtwPc = "done"
    /\ Len(seq1) >= 2
    /\ Len(seq2) >= 2
    /\ dtw[<<Len(seq1), Len(seq2)>>] > 0
    /\ dtw[<<Len(seq1), Len(seq2)>>] < Inf
    /\ \E q \in BandPaths(0, 0, Len(seq1), Len(seq2), ClaimedBand(Len(seq1), Len(seq2))) :
          PathCost(seq1, seq2, q) > PathCost(seq1, seq2, path)

\* C6: with band = max(|n-m|, max(n,m)//10) and n, m >= 1 the accumulated cost
\* at (n,m) is finite, every pair on the path has |i-j| <= band and a finite
\* accumulated cost, and the backtrack reaches (0,0) without the boundary loops.
C6_PathStaysInBand ==
    (dtwPc = "done" /\ Len(seq1) >= 1 /\ Len(seq2) >= 1) =>
        LET n == Len(seq1)
            m == Len(seq2)
            band == ClaimedBand(n, m)
        IN /\ dtw[<<n, m>>] < Inf
           /\ \A k \in DOMAIN path :
                 /\ Abs(path[k][1] - path[k][2]) <= band
                 /\ dtw[<<path[k][1] + 1, path[k][2] + 1>>] < Inf
           /\ ~fell
           /\ path[1] = <<0, 0>>

\* C6 witness: equal lengths >= 10, so the band is max(n,m)//10 = 1 > |n-m|,
\* the path leaves the diagonal and some cell was left at the sentinel
C6_Witness ==
    /\ dtwPc = "done"
    /\ Len(seq1) = Len(seq2)
    /\ Len(seq1) >= 10
    /\ \E k \in DOMAIN path : path[k][1] # path[k][2]
    /\ \E c \in DOMAIN dtw : c[1] >= 1 /\ c[2] >= 1 /\ dtw[c] = Inf
    /\ ~fell

----------------------------------------------------------------------------
(* _ppg_jsd_similarity: automatic band adjustment *)

\* a call of _ppg_jsd_similarity with an explicit band has returned, and the
\* downsampled lengths are more than 20% apart
WidenCase ==
    /\ ppgPc = "done"
    /\ ppgOp = "_ppg_jsd_similarity"
    /\ ppgBand # None
    /\ Min(ppgNa, ppgNb) > 0
    /\ 5 * Max(ppgNa, ppgNb) > 6 * Min(ppgNa, ppgNb)

\* every cell (i, j) with |i - j| <= |na - nb| * 1.5 + 50 holds a divergence
CellsComputed ==
    \A c \in DOMAIN ppgD :
        2 * Abs(c[1] - c[2]) <= (3 * Abs(ppgNa - ppgNb)) + 100 => ppgD[c] # Sentinel

\* C7 as stated: with an explicit band and lengths more than 20% apart, the
\* band used to fill the cost matrix is at least |na - nb| * 1.5 + 50, and
\* every cell within that distance of the diagonal is computed.
C7_BandAtLeastSuggested ==
    WidenCase =>
        /\ 2 * ppgBandEff >= (3 * Abs(ppgNa - ppgNb)) + 100
        /\ CellsComputed

\* C7 amended: with an explicit band and lengths more than 20% apart, the
\* band used to fill the cost matrix is at least |na - nb| * 1.5 + 50
\* truncated to an integer, and every cell (i, j) with
\* |i - j| <= |na - nb| * 1.5 + 50 is computed.
C7_BandAtLeastTruncated ==
    WidenCase =>
        /\ ppgBandEff >= ((3 * Abs(ppgNa - ppgNb)) + 100) \div 2
        /\ CellsComputed

\* the band was widened and the matrix still has cells outside it
C7_Witness ==
    /\ WidenCase
    /\ ppgBandEff > ppgBand
    /\ \E c \in DOMAIN ppgD : ppgD[c] = Sentinel

----------------------------------------------------------------------------
(* Degenerate inputs *)

\* C8: when either of the two sequences to be aligned is empty, the metric
\* returns 0.0 without running the DTW or Levenshtein recurrence and without
\* raising: _dtw_phone, calculate_per_similarity, and the prosodic metrics
\* that align through align_features and dtw_alignment.
C8_EmptyIsWorstCase ==
    /\ (gopPc = "done" /\ gopOp = "_dtw_phone" /\ (gops_a = <<>> \/ gops_b = <<>>))
           => (RatEq(gopOut, 0, 1) /\ ~gopRan)
    /\ (perPc = "done" /\ perOp = "calculate_per_similarity" /\ (ref = <<>> \/ hyp = <<>>))
           => (RatEq(perOut, 0, 1) /\ ~perRan)
    /\ (proPc = "done" /\ (feat1 = <<>> \/ feat2 = <<>>))
           => (RatEq(proOut, 0, 1) /\ ~proRan)

\* C9: PPG and GOP similarity are 0.0 whenever either posteriorgram has
\* fewer than 5 frames: calculate_ppg_similarity, calculate_gop_similarity
\* and the PPG feature of AudioScorer.score.
C9_ShortIsZero ==
    /\ (/\ ppgPc = "done"
        /\ ppgOp \in {"calculate_ppg_similarity", "AudioScorer._calculate_ppg_similarity"}
        /\ (Len(logp_a) < MinFrames \/ Len(logp_b) < MinFrames))
           => RatEq(ppgOut, 0, 1)
    /\ (/\ gopPc = "done"
        /\ gopOp = "calculate_gop_similarity"
        /\ (Len(gop_logp_a) < MinFrames \/ Len(gop_logp_b) < MinFrames))
           => RatEq(gopOut, 0, 1)

----------------------------------------------------------------------------
(* Claims about the predicted rating *)

\* a float that is a number between 1.0 and 5.0
IsRating(x) ==
    /\ x.kind = "value"
    /\ x.den = ScoreUnit
    /\ ScoreUnit <= x.num
    /\ x.num <= 5 * ScoreUnit

\* C11: whatever the features and whatever the regression model returns
\* (out of range, infinite or nan), a score that RatingPredictor.predict or
\* predict_score returns lies between 1.0 and 5.0
C11_ScoreClamped ==
    /\ (ratPc = "done" /\ ratOut.kind # "KeyError") => IsRating(ratOut)
    /\ (svcPc = "done" /\ svcOut.kind = "value") =>
          /\ ScoreUnit <= svcOut.score
          /\ svcOut.score <= 5 * ScoreUnit

\* all-zero features, the network returning more than 5.0, and predict
\* returning 5.0
C11_Witness ==
    /\ ratPc = "done"
    /\ \A k \in Range(feature_order) : k \in DOMAIN features /\ features[k] = Rat(0, 1)
    /\ prediction.kind = "value"
    /\ prediction.num > 5 * ScoreUnit
    /\ ratOut = Rat(5 * ScoreUnit, ScoreUnit)

\* the predict call of a step, made with a dict that lacks a required key
PredictLacksKey ==
    /\ ratPc = "ready"
    /\ ratPc' = "done"
    /\ \E k \in Range(feature_order) : k \notin DOMAIN features

\* the predict_score call of a step, made with a dict that lacks a metric
PredictScoreLacksMetric ==
    /\ svcPc = "ready"
    /\ svcPc' = "done"
    /\ \E k \in Range(ScoreColumns) : k \notin DOMAIN metrics

\* C12: a call with a dict that lacks a required key raises and produces no
\* rating: predict raises KeyError, predict_score (the model loaded) raises
\* ValueError listing exactly the missing metrics; the loaded model state
\* is the same after the failed call
C12_MissingKeyRejected ==
    [][/\ PredictLacksKey =>
            /\ ratOut'.kind = "KeyError"
            /\ UNCHANGED <<model, scaler>>
       /\ PredictScoreLacksMetric =>
            /\ svcOut'.kind \in {"ValueError", "RuntimeError"}
            /\ _model # "none" =>
                  /\ svcOut'.kind = "ValueError"
                  /\ Range(svcOut'.missing) = Range(ScoreColumns) \ DOMAIN metrics
            /\ UNCHANGED <<_model, _METRIC_INFO, _SCORE_COLUMNS>>]_vars

\* predict_score, the model loaded, has rejected a dict without score_WER
C12_Witness ==
    /\ svcPc = "done"
    /\ _model = "rf_score_model"
    /\ DOMAIN metrics = Range(ScoreColumns) \ {"score_WER"}
    /\ svcOut.kind = "ValueError"
    /\ svcOut.missing = <<"score_WER">>

\* C13: in the dict predict_score returns, score_int is an integer of 1..5
\* within 0.5 of the clamped score, and score_half is a multiple of 0.5
\* between 1.0 and 5.0 within 0.25 of it
C13_DerivedScoresConsistent ==
    (svcPc = "done" /\ svcOut.kind = "value") =>
        /\ svcOut.score_int \in 1..5
        /\ 2 * Abs(svcOut.score - (ScoreUnit * svcOut.score_int)) <= ScoreUnit
        /\ svcOut.score_half \in 2..10
        /\ 4 * Abs((2 * svcOut.score) - (ScoreUnit * svcOut.score_half)) <= 2 * ScoreUnit

\* the tie 2.5: score_int is the even neighbour 2, half a point away, and
\* score_half is 2.5 itself
C13_Witness ==
    /\ svcPc = "done"
    /\ svcOut.kind = "value"
    /\ 2 * svcOut.score = 5 * ScoreUnit
    /\ svcOut.score_int = 2
    /\ svcOut.score_half = 5

----------------------------------------------------------------------------
(* Claims about model loading *)

\* the extractors built for a device
BuiltFor(d) == {i \in 1..Len(instances) : instances[i] = d}

\* C14: however concurrent _get_ppg_extractor calls for one device
\* interleave, one extractor is built for the device, every caller that has
\* returned holds that extractor, and a stored cache entry is never replaced
C14_ConstructedOnce ==
    /\ [](/\ \A d \in Devices : Cardinality(BuiltFor(d)) <= 1
          /\ \A c1, c2 \in DOMAIN extPc :
                (extPc[c1] = "returned" /\ extPc[c2] = "returned"
                    /\ device[c1] = device[c2]) => extractor[c1] = extractor[c2])
    /\ [][\A d \in DOMAIN _PPG_EXTRACTORS :
             _PPG_EXTRACTORS'[d] = _PPG_EXTRACTORS[d]]_vars

\* C15: scoring calls load no model: after any sequence of
\* AudioScorer.score calls and POST /score requests the phoneme model,
\* SpeechMetrics and RatingPredictor have each been loaded once, at
\* construction, and the fields of the scorer are the objects built then
C15_NoReload ==
    response # "idle" =>
        /\ loads = [ctc |-> 1, speech_metrics |-> 1, rating_predictor |-> 1]
        /\ scorer = [ctc |-> 1, speech_metrics |-> 1, rating_predictor |-> 1]

----------------------------------------------------------------------------
(* Algebraic claims about the alignment-based similarities *)

\* C16: _dtw_phone(a, b) = _dtw_phone(b, a) for all GOP sequences and every
\* band
C16_DtwPhoneSymmetric ==
    gopPc = "done" => gopOut = DtwPhone(gops_b, gops_a, gopBand).out

\* two lists of different lengths and phones compared under band 1, with a
\* similarity strictly between 0 and 1
C16_Witness ==
    /\ gopPc = "done"
    /\ gopBand = 1
    /\ Len(gops_a) = 2
    /\ Len(gops_b) = 3
    /\ gops_a[1][1] # gops_b[1][1]
    /\ gopOut.kind = "exp_neg"

\* the same exception, or the same number
SameFloat(x, y) == x.kind = y.kind /\ x.num * y.den = y.num * x.den

\* what the metric that was called returns for the arguments (f1, f2)
ProsodyOf(op, f1, f2) ==
    IF op = "calculate_vde" THEN CalculateVde(f1, f2).out
    ELSE IF op = "calculate_gpe" THEN CalculateGpe(f1, f2).out
    ELSE CalculateFfe(f1, f2).out

\* C17: calculate_vde, calculate_gpe and calculate_ffe return for (a, b)
\* what they return for (b, a)
C17_ProsodySymmetric ==
    proPc = "done" => SameFloat(proOut, ProsodyOf(proOp, feat2, feat1))

\* C18: a non-empty sequence compared with itself: the phoneme error rate
\* is 0 and the PER similarity 1.0; _dtw_phone(g, g) is 1.0 (accumulated
\* cost 0) under every band
C18_SelfSimilarityIsOne ==
    /\ (perPc = "done" /\ ref # <<>> /\ hyp = ref) =>
          /\ EditDistance(ref, hyp) = 0
          /\ perOp = "_calc_per" => RatEq(perOut, 0, 1)
          /\ perOp # "_calc_per" => RatEq(perOut, 1, 1)
    /\ (gopPc = "done" /\ gops_a # <<>> /\ gops_b = gops_a) =>
          RatEq(gopOut, 1, 1)

\* a three-entry GOP list with a repeated phone compared with itself under
\* band 0
C18_Witness ==
    /\ gopPc = "done"
    /\ gopBand = 0
    /\ Len(gops_a) = 3
    /\ gops_b = gops_a
    /\ gops_a[1][1] = gops_a[2][1]
    /\ gops_a[1] # gops_a[2]
    /\ gopRan
    /\ gopOut = Rat(1, 1)

\* (0, 0), (1, 1), ..., (n - 1, n - 1)
Diagonal(n) == [k \in 1..n |-> <<k - 1, k - 1>>]

\* C19: dtw_alignment of a sequence of n >= 1 frames with itself returns
\* the diagonal path; a recording compared with itself has no
\* voicing-disagreement frame and no gross-pitch-error frame, and its VDE
\* and FFE similarities are 1.0
C19_SelfAlignsOnDiagonal ==
    /\ (dtwPc = "done" /\ seq1 # <<>> /\ seq2 = seq1) =>
          path = Diagonal(Len(seq1))
    /\ (proPc = "done" /\ feat1 # <<>> /\ feat2 = feat1) =>
          /\ proPath = Diagonal(Len(feat1))
          /\ \A k \in DOMAIN proPath :
                LET pr == AlignedPairs(feat1, feat2, proPath)[k]
                IN ~VdeError(pr) /\ ~GpeError(pr)
          /\ proOp \in {"calculate_vde", "calculate_ffe"} => RatEq(proOut, 1, 1)

\* a flat ten-frame sequence aligned with itself: the band is 1 and the
\* cells beside the diagonal tie with it at cost 0
C19_Witness ==
    /\ dtwPc = "done"
    /\ seq1 = LongFlat
    /\ seq2 = seq1
    /\ dtw[<<Len(seq1), Len(seq1) - 1>>] = 0
    /\ path = Diagonal(Len(seq1))

----------------------------------------------------------------------------
(* Edge cases of the span decoder *)

\* C20: an all-blank frame sequence yields no span; a sequence whose
\* non-blank frames all carry one token, with blanks anywhere, yields
\* exactly one span, from the first to the last frame carrying the token
C20_SingleTokenOneSpan ==
    ctcPc = "done" =>
        LET nb == NonBlank(ids, blank)
        IN /\ nb = {} => spans = <<>>
           /\ (nb # {} /\ \A t, u \in nb : ids[t + 1] = ids[u + 1]) =>
                 spans = <<<<ids[SetMin(nb) + 1], SetMin(nb), SetMax(nb)>>>>

\* one token on the first and the last of five frames, blanks before,
\* between and after its occurrences, decoded into one span
C20_Witness ==
    /\ ctcPc = "done"
    /\ Len(ids) = MaxFrames
    /\ ids[1] = blank
    /\ ids[2] # blank
    /\ ids[3] = blank
    /\ ids[4] = ids[2]
    /\ ids[5] = blank
    /\ spans = <<<<ids[2], 1, 3>>>>

----------------------------------------------------------------------------
(* Claims about the GOP entries and the phone alignment *)

\* ceil(T / d)
CeilDiv(T, d) == (T + (d - 1)) \div d

\* the entries are one per span of the decoder, in span order, each span
\* mapped to (start // d, end // d) inside the sliced posteriorgram
OnePerSpan(logp, d, gops) ==
    LET sp == PosteriorSpans(logp)
    IN /\ Len(gops) = Len(sp)
       /\ \A k \in DOMAIN sp :
             /\ 0 <= sp[k][2] \div d
             /\ sp[k][2] \div d <= sp[k][3] \div d
             /\ sp[k][3] \div d < CeilDiv(Len(logp), d)
             /\ gops[k][1] = sp[k][1]
             /\ gops[k][3] = ((sp[k][3] \div d) - (sp[k][2] \div d)) + 1
             /\ gops[k][3] >= 1

\* C21: for the spans the decoder returns on a T-frame posteriorgram and
\* any downsample factor d, the scaled spans stay inside the sliced
\* posteriorgram, so _gops_from_spans emits one entry per span, in span
\* order, with duration end - start + 1 >= 1
C21_OneGopPerSpan ==
    (gopPc = "done" /\ gopOp = "calculate_gop_similarity"
        /\ Len(gop_logp_a) >= MinFrames /\ Len(gop_logp_b) >= MinFrames) =>
        /\ OnePerSpan(gop_logp_a, gopDownsample, gops_a)
        /\ OnePerSpan(gop_logp_b, gopDownsample, gops_b)

\* a posteriorgram with two spans downsampled by 3: both spans survive, the
\* last one ending on the last frame of the sliced posteriorgram
C21_Witness ==
    /\ gopPc = "done"
    /\ gopOp = "calculate_gop_similarity"
    /\ gopDownsample = 3
    /\ Len(gop_logp_a) >= MinFrames
    /\ Len(gop_logp_b) >= MinFrames
    /\ Len(PosteriorSpans(gop_logp_a)) = 2
    /\ Len(gops_a) = 2
    /\ PosteriorSpans(gop_logp_a)[2][3] = Len(gop_logp_a) - 1

\* D[n, m] of _dtw_phone
PhoneTotal(ga, gb, b) ==
    PhoneFill(ga, gb, b,
              [i |-> 1, j |-> PhoneJmin(b, 1),
               D |-> FullInf(Len(ga), Len(gb))])[<<Len(ga), Len(gb)>>]

\* equal-length lists that are identical but for one position, which holds
\* different tokens
OneTokenDiffers(ga, gb) ==
    /\ Len(ga) = Len(gb)
    /\ \E k \in DOMAIN ga :
          /\ ga[k][1] # gb[k][1]
          /\ \A l \in (DOMAIN ga) \ {k} : ga[l] = gb[l]

\* C22 as stated: for two equal-length GOP sequences identical except for
\* one position holding different tokens, the accumulated cost D[n, m] of
\* _dtw_phone is the penalty 1.5
C22_MismatchCostsPenalty ==
    (gopPc = "done" /\ OneTokenDiffers(gops_a, gops_b)) =>
        PhoneTotal(gops_a, gops_b, gopBand) = PhonePenalty

\* C22 amended: for such sequences D[n, m] is 1.5 when the differing
\* position is the first one or the band is 0, and otherwise 1.0: past the
\* first cell the two 0.5 steps that skip the differing entries are cheaper
\* than aligning them
C22_MismatchCostsPenaltyOrTwoSteps ==
    (gopPc = "done" /\ OneTokenDiffers(gops_a, gops_b)) =>
        PhoneTotal(gops_a, gops_b, gopBand) =
            IF gops_a[1][1] # gops_b[1][1] \/ gopBand = 0
            THEN PhonePenalty ELSE 2 * PhoneStep

\* three entries differing in the middle token, aligned without a band
\* at cost 1.0
C22_Witness ==
    /\ gopPc = "done"
    /\ gopBand = None
    /\ Len(gops_a) = 3
    /\ OneTokenDiffers(gops_a, gops_b)
    /\ gops_a[2][1] # gops_b[2][1]
    /\ gopOut = [kind |-> "exp_neg", num |-> 2 * PhoneStep, den |-> 6 * GopOne]

----------------------------------------------------------------------------
(* Claims about span labels and the span index *)

\* C23: every span (token, start, end) carries the token predicted in it:
\* the argmax at start and at end is the token, and no frame from start to
\* end holds another non-blank token
C23_SpanLabelIsPredicted ==
    ctcPc = "done" =>
        \A k \in DOMAIN spans :
            /\ ids[spans[k][2] + 1] = spans[k][1]
            /\ ids[spans[k][3] + 1] = spans[k][1]
            /\ \A t \in spans[k][2]..spans[k][3] :
                  ids[t + 1] \in {blank, spans[k][1]}

\* C24: the early-exit break of the span loop is never taken: every
\* non-blank frame lies inside exactly one returned span, and there are no
\* more spans than collapsed tokens
C24_SpanIndexInRange ==
    ctcPc = "done" =>
        /\ ~broke
        /\ \A t \in NonBlank(ids, blank) :
              Cardinality({k \in DOMAIN spans :
                              spans[k][2] <= t /\ t <= spans[k][3]}) = 1
        /\ Len(spans) <= Len(collapsed)

\* a token repeated across a blank and then another token on two frames:
\* the span index reaches the last collapsed token and stops there
C24_Witness ==
    /\ ctcPc = "done"
    /\ Len(ids) = 5
    /\ ids[2] = blank
    /\ ids[1] # blank
    /\ ids[3] = ids[1]
    /\ ids[4] \notin {blank, ids[1]}
    /\ ids[5] = ids[4]
    /\ Len(collapsed) = 3
    /\ Len(spans) = 3
    /\ ~broke

----------------------------------------------------------------------------
(* Claims about get_wer_score *)

\* the invalid-input cases of get_wer_score
WerInvalidInput ==
    \/ ~test_is_file
    \/ ~gt_transcript /\ ~gt_is_file
    \/ gt_transcript /\ ground_truth_transcript_path # "file"

\* C25: get_wer_score rejects every invalid input with ValueError before
\* Whisper is loaded and before any audio is transcribed
C25_RejectedBeforeLoad ==
    (werPc = "done" /\ WerInvalidInput) =>
        /\ werOut.kind = "ValueError"
        /\ whisper_loads = 0
        /\ transcribed = <<>>

----------------------------------------------------------------------------
(* Claims about POST /score and the ai_scores table *)

\* a step that serves a request with both files and all four key fields
FullKeyRequest ==
    /\ requests' = requests + 1
    /\ request'.files
    /\ request'.key # "none"

\* the reply and the effects of a cache hit on the score v
CacheHit(v) ==
    /\ reply' = Reply(200, TRUE, v, TRUE)
    /\ scorer_runs' = 0
    /\ temp_created' = 0
    /\ ai_scores' = ai_scores

\* x is the float r rounded to two decimals
IsRounded2(x, r) ==
    /\ x.kind = "value"
    /\ x.den = 100
    /\ 2 * Abs((100 * r.num) - (x.num * r.den)) <= r.den

\* C26 (as stated): a request with all four key fields answers with the
\* stored score, cached, without scoring, temporary files or a write, when a
\* score is stored for the key, and otherwise runs the scorer, stores its
\* rating under the key and returns it uncached
C26_StoreCheckedFirst ==
    [][FullKeyRequest =>
        IF request'.key \in StoreKeys /\ ai_scores[request'.key] # PyNone
        THEN CacheHit(ai_scores[request'.key])
        ELSE /\ scorer_runs' = 1
             /\ request'.key \in StoreKeys
             /\ SameFloat(ai_scores'[request'.key], request'.rating)
             /\ reply' = Reply(200, TRUE, request'.rating, FALSE)]_vars

\* C26 (amended): the stored score is returned, cached and without effects,
\* when the lookup succeeds and finds one; in every other case the
\* temporary files are created and, when conversion and scoring succeed,
\* the scorer has run once, its rating is returned uncached, and the table
\* holds the rating rounded to two decimals under the key if the key fields
\* are integers and the upsert succeeds, and is unchanged if not; when
\* conversion or scoring fails the reply is a 500 and the table is unchanged
C26_StoreCheckedFirstWhenAvailable ==
    [][FullKeyRequest =>
        IF /\ request'.key \in StoreKeys
           /\ request'.lookup = "ok"
           /\ ai_scores[request'.key] # PyNone
        THEN CacheHit(ai_scores[request'.key])
        ELSE /\ temp_created' = 3
             /\ IF request'.scoring = "ok"
                THEN /\ scorer_runs' = 1
                     /\ reply' = Reply(200, TRUE, request'.rating, FALSE)
                     /\ IF request'.key \in StoreKeys /\ request'.save = "ok"
                        THEN /\ IsRounded2(ai_scores'[request'.key], request'.rating)
                             /\ \A k \in StoreKeys \ {request'.key} :
                                    ai_scores'[k] = ai_scores[k]
                        ELSE ai_scores' = ai_scores
                ELSE /\ reply' = Reply(500, FALSE, PyNone, FALSE)
                     /\ ai_scores' = ai_scores]_vars

\* a request was answered from the table
C26_Witness ==
    /\ response = "cached"
    /\ request.key \in StoreKeys
    /\ reply.cached
    /\ SameFloat(reply.rating, ai_scores[request.key])

\* C27: a persistence failure never fails a scoring request: when the
\* lookup raises or finds nothing the rating is computed, and the reply is
\* success with the computed rating, uncached, whether or not the save
\* succeeds
C27_PersistenceFailureTolerated ==
    [][(FullKeyRequest /\ request'.scoring = "ok"
            /\ \/ request'.key = "bad"
               \/ request'.lookup = "fails"
               \/ ai_scores[request'.key] = PyNone)
        => /\ temp_created' = 3
           /\ scorer_runs' = 1
           /\ reply' = Reply(200, TRUE, request'.rating, FALSE)]_vars

\* a request whose lookup and save both failed was answered with its rating
C27_Witness ==
    /\ response = "scored"
    /\ request.key \in StoreKeys
    /\ request.lookup = "fails"
    /\ request.save = "fails"
    /\ reply = Reply(200, TRUE, request.rating, FALSE)

\* C28: the rating of a cache hit equals the rating that the uncached
\* request which stored the score computed and returned
C28_CacheRoundTrip ==
    (response = "cached" /\ returned[request.key] # PyNone) =>
        SameFloat(reply.rating, returned[request.key])

----------------------------------------------------------------------------
(* Claims about the scoring service *)

\* C29: the model state of the scoring service is write-once:
\* predict_score and get_feature_importance raise RuntimeError while no
\* model is loaded, a load_model that fails because the file is absent
\* leaves the state unloaded, and once a model is loaded no load_model
\* call, whatever its models_dir, changes the model or the metric tables
C29_ModelWriteOnce ==
    [][/\ (_model = "none" /\ svcOp' = "predict_score" /\ svcPc = "ready"
              /\ svcPc' = "done")
            => svcOut'.kind = "RuntimeError"
       /\ (_model = "none" /\ svcOp' = "get_feature_importance")
            => featOut'.kind = "RuntimeError"
       /\ (svcOp' = "load_model" /\ ~model_path_exists[models_dir'] /\ _model = "none")
            => /\ loadOut' = "FileNotFoundError"
               /\ _model' = "none"
               /\ UNCHANGED <<_METRIC_INFO, _SCORE_COLUMNS>>
       /\ _model # "none"
            => UNCHANGED <<_model, _METRIC_INFO, _SCORE_COLUMNS>>]_vars

\* a model was loaded from the default directory and a later load_model
\* naming another directory, whose file exists, has returned
C29_Witness ==
    /\ svcOp = "load_model"
    /\ models_dir = "other_models"
    /\ model_path_exists["other_models"]
    /\ loadOut = "returned"
    /\ _model = ModelIn("None")
    /\ _SCORE_COLUMNS = ScoreColumns

\* C30: predict_score never returns the confidence 'low': score_int is the
\* nearest integer to the clamped score, so only 'high' and 'medium' occur
C30_ConfidenceNeverLow ==
    (svcOp = "predict_score" /\ svcOut.kind = "value") =>
        svcOut.confidence \in {"high", "medium"}

\* a score half a point from its score_int, graded 'medium'
C30_Witness ==
    /\ svcOp = "predict_score"
    /\ svcOut.kind = "value"
    /\ 2 * Abs(svcOut.score - (ScoreUnit * svcOut.score_int)) = ScoreUnit
    /\ svcOut.confidence = "medium"

====
